---- MODULE Spec2Model ----
(***************************************************************************)
(* A model of the text-analysis core of the plagiarism-website repository: *)
(* AIDetector (services/ai_detector.py), PlagiarismDetector               *)
(* (services/plagiarism_detector.py) and Humanizer (services/humanizer.py).*)
(*                                                                         *)
(* Texts are TLA+ strings; a character is a string of length one.  Floats  *)
(* are fixed-point integers: "centi" values carry two decimals (a score of *)
(* 12.34 is 1234), "milli" values three.                                   *)
(***************************************************************************)
EXTENDS Integers, Sequences, FiniteSets, TLC

VARIABLES
  op,              \* the operation that returned last, "start" before any
  text,            \* the text argument of the operation
  other,           \* the second text argument of an operation that takes two
  res,             \* the value the operation returned
  corpus,          \* PlagiarismDetector.corpus
  corpus_sources   \* PlagiarismDetector.corpus_sources

vars == <<op, text, other, res, corpus, corpus_sources>>

(***************************************************************************)
(* Python string primitives                                                *)
(***************************************************************************)

Char(s, i) == SubSeq(s, i, i)

Min(a, b) == IF a <= b THEN a ELSE b

Max(a, b) == IF a >= b THEN a ELSE b

Indices(n) == [i \in 1..n |-> i]

\* str.isspace for the characters of the model's alphabet (regex \s)
IsSpace(c) == c \in {" ", "\n", "\t"}

\* the character class [.!?] of the sentence-boundary regex
IsSentenceEnd(c) == c \in {".", "!", "?"}

ToLower ==
  ("A" :> "a") @@ ("B" :> "b") @@ ("C" :> "c") @@ ("D" :> "d") @@ ("E" :> "e") @@
  ("F" :> "f") @@ ("G" :> "g") @@ ("H" :> "h") @@ ("I" :> "i") @@ ("J" :> "j") @@
  ("K" :> "k") @@ ("L" :> "l") @@ ("M" :> "m") @@ ("N" :> "n") @@ ("O" :> "o") @@
  ("P" :> "p") @@ ("Q" :> "q") @@ ("R" :> "r") @@ ("S" :> "s") @@ ("T" :> "t") @@
  ("U" :> "u") @@ ("V" :> "v") @@ ("W" :> "w") @@ ("X" :> "x") @@ ("Y" :> "y") @@
  ("Z" :> "z")

ToUpper ==
  ("a" :> "A") @@ ("b" :> "B") @@ ("c" :> "C") @@ ("d" :> "D") @@ ("e" :> "E") @@
  ("f" :> "F") @@ ("g" :> "G") @@ ("h" :> "H") @@ ("i" :> "I") @@ ("j" :> "J") @@
  ("k" :> "K") @@ ("l" :> "L") @@ ("m" :> "M") @@ ("n" :> "N") @@ ("o" :> "O") @@
  ("p" :> "P") @@ ("q" :> "Q") @@ ("r" :> "R") @@ ("s" :> "S") @@ ("t" :> "T") @@
  ("u" :> "U") @@ ("v" :> "V") @@ ("w" :> "W") @@ ("x" :> "X") @@ ("y" :> "Y") @@
  ("z" :> "Z")

LowerChar(c) == IF c \in DOMAIN ToLower THEN ToLower[c] ELSE c

UpperChar(c) == IF c \in DOMAIN ToUpper THEN ToUpper[c] ELSE c

IsLowerAlpha(c) == c \in DOMAIN ToUpper

Digits == {"0", "1", "2", "3", "4", "5", "6", "7", "8", "9"}

\* the regex class \w
IsWordChar(c) == c \in DOMAIN ToUpper \/ c \in DOMAIN ToLower \/ c \in Digits \/ c = "_"

RECURSIVE LowerRange(_, _, _)
LowerRange(s, i, j) ==
  IF i > j THEN ""
  ELSE IF i = j THEN LowerChar(Char(s, i))
  ELSE LET m == (i + j) \div 2
       IN  LowerRange(s, i, m) \o LowerRange(s, m + 1, j)

\* str.lower()
Lower(s) == LowerRange(s, 1, Len(s))

\* s[i-1:].startswith(p), i is 1-based
StartsWithAt(s, p, i) == i + Len(p) - 1 <= Len(s) /\ SubSeq(s, i, i + Len(p) - 1) = p

\* str.startswith
StartsWith(s, p) == StartsWithAt(s, p, 1)

\* str.endswith
EndsWith(s, p) == Len(p) <= Len(s) /\ SubSeq(s, Len(s) - Len(p) + 1, Len(s)) = p

\* the positions at which p occurs in s
Occurrences(s, p) == {i \in 1..(Len(s) - Len(p) + 1) : SubSeq(s, i, i + Len(p) - 1) = p}

\* the operator `in` on strings
Contains(s, p) == \E i \in 1..(Len(s) - Len(p) + 1) : SubSeq(s, i, i + Len(p) - 1) = p

SetMin(S) == CHOOSE x \in S : \A y \in S : x <= y

\* str.strip() is not empty
NonBlank(s) == ~(\A i \in 1..Len(s) : IsSpace(Char(s, i)))

\* first characters of the whitespace-separated words of s
WordStarts(s) ==
  SelectSeq(Indices(Len(s)),
            LAMBDA i : ~IsSpace(Char(s, i)) /\ (i = 1 \/ IsSpace(Char(s, i - 1))))

\* last characters of the whitespace-separated words of s
WordEnds(s) ==
  SelectSeq(Indices(Len(s)),
            LAMBDA i : ~IsSpace(Char(s, i)) /\ (i = Len(s) \/ IsSpace(Char(s, i + 1))))

\* str.split()
Split(s) ==
  LET st == WordStarts(s)
      en == WordEnds(s)
  IN  [k \in 1..Len(st) |-> SubSeq(s, st[k], en[k])]

RECURSIVE JoinRange(_, _, _, _)
JoinRange(sep, ws, i, j) ==
  IF i > j THEN ""
  ELSE IF i = j THEN ws[i]
  ELSE LET m == (i + j) \div 2
       IN  JoinRange(sep, ws, i, m) \o sep \o JoinRange(sep, ws, m + 1, j)

\* sep.join(ws)
Join(sep, ws) == JoinRange(sep, ws, 1, Len(ws))

\* re.split(r'(?<=[.!?])\s+', text), each piece stripped, blank pieces dropped:
\* a piece starts at the first word and at every word whose predecessor ends
\* in [.!?]; stripped, it runs from its first word's first character to its
\* last word's last character.
SplitSentences(s) ==
  LET st == WordStarts(s)
      en == WordEnds(s)
      n  == Len(st)
      first == SelectSeq(Indices(n),
                         LAMBDA k : k = 1 \/ IsSentenceEnd(Char(s, en[k - 1])))
  IN  [j \in 1..Len(first) |->
         SubSeq(s, st[first[j]],
                   en[IF j = Len(first) THEN n ELSE first[j + 1] - 1])]

(***************************************************************************)
(* Fixed-point arithmetic standing for Python floats, numpy and math       *)
(***************************************************************************)

RECURSIVE SumRange(_, _, _)
SumRange(q, i, j) ==
  IF i > j THEN 0
  ELSE IF i = j THEN q[i]
  ELSE LET m == (i + j) \div 2
       IN  SumRange(q, i, m) + SumRange(q, m + 1, j)

\* sum(q)
SumSeq(q) == SumRange(q, 1, Len(q))

RECURSIVE IsqrtRange(_, _, _)
IsqrtRange(x, lo, hi) ==
  IF lo >= hi THEN lo
  ELSE LET m == (lo + hi + 1) \div 2
       IN  IF m * m <= x THEN IsqrtRange(x, m, hi) ELSE IsqrtRange(x, lo, m - 1)

\* floor of the square root of x, 0 <= x < 2^31
Isqrt(x) == IsqrtRange(x, 0, Min(x, 46340))

\* floor(1000 * sqrt(x)) up to the precision 32-bit integers allow
SqrtMilli(x) ==
  IF x < 2000 THEN Isqrt(x * 1000000)
  ELSE IF x < 200000 THEN Isqrt(x * 10000) * 10
  ELSE IF x < 20000000 THEN Isqrt(x * 100) * 100
  ELSE Isqrt(x) * 1000

RECURSIVE LongDiv(_, _, _)
\* <<floor(a * 10^k / c), remainder>> by long division, 0 <= a, 0 < c < 2 * 10^8
LongDiv(a, c, k) ==
  IF k = 0 THEN <<a \div c, a % c>>
  ELSE LET p == LongDiv(a, c, k - 1)
       IN  <<p[1] * 10 + (p[2] * 10) \div c, (p[2] * 10) % c>>

\* floor(a * 10^k / c)
ScaledDiv(a, c, k) == LongDiv(a, c, k)[1]

RECURSIVE Log2Floor(_)
Log2Floor(n) == IF n < 2 THEN 0 ELSE 1 + Log2Floor(n \div 2)

\* math.log(n) for an integer n >= 1, times 10^5:
\* ln n = k ln 2 + 2 atanh z, z = (n - 2^k) / (n + 2^k), 2^k <= n < 2^(k+1)
Ln1e5(n) ==
  LET k  == Log2Floor(n)
      p  == 2 ^ k
      z  == ((n - p) * 100000) \div (n + p)
      z2 == (z * z) \div 100000
      z3 == (z * z2) \div 100000
      z5 == (z3 * z2) \div 100000
      z7 == (z5 * z2) \div 100000
      z9 == (z7 * z2) \div 100000
  IN  k * 69315 + 2 * (z + z3 \div 3 + z5 \div 5 + z7 \div 7 + z9 \div 9)

(***************************************************************************)
(* AIDetector                                                              *)
(***************************************************************************)

transition_words ==
  <<"furthermore", "moreover", "additionally", "consequently",
    "nevertheless", "subsequently", "accordingly", "hence",
    "thus", "therefore", "likewise", "similarly">>

filler_phrases ==
  <<"it is important to note", "it is worth mentioning", "in this context",
    "in other words", "to put it simply", "as mentioned earlier",
    "as previously stated", "it goes without saying", "needless to say",
    "for the most part">>

hedge_words ==
  <<"somewhat", "relatively", "generally", "typically",
    "usually", "often", "perhaps", "possibly", "likely",
    "essentially", "basically", "fundamentally">>

Range(q) == {q[i] : i \in 1..Len(q)}

\* len(s.strip()) > 10
MinSentenceChars == 10

\* AIDetector._get_sentences
AI_get_sentences(t) ==
  SelectSeq(SplitSentences(t), LAMBDA s : Len(s) > MinSentenceChars)

\* word density times 100, in milli: (count / len(words)) * 100
WordDensity(t, list) ==
  LET words == Split(Lower(t))
  IN  IF Len(words) = 0 THEN 0
      ELSE (Cardinality({i \in 1..Len(words) : words[i] \in Range(list)}) * 100000)
             \div Len(words)

\* AIDetector._analyze_transitions (milli)
AI_analyze_transitions(t) == WordDensity(t, transition_words)

\* AIDetector._analyze_hedging (milli)
AI_analyze_hedging(t) == WordDensity(t, hedge_words)

\* AIDetector._analyze_fillers (milli)
AI_analyze_fillers(t) ==
  LET text_lower == Lower(t)
      word_count == Len(Split(t))
  IN  IF word_count = 0 THEN 0
      ELSE (Cardinality({ph \in Range(filler_phrases) : Contains(text_lower, ph)}) * 100000)
             \div word_count

\* sentence uniformity from the lengths of the sentences in characters
AI_uniformity_of_chars(sentences) ==
  IF Len(sentences) < 3 THEN 50000
  ELSE LET lengths == [i \in 1..Len(sentences) |-> Len(sentences[i])]
           total   == SumSeq(lengths)
           squares == SumSeq([i \in 1..Len(lengths) |-> lengths[i] * lengths[i]])
           d       == Len(lengths) * squares - total * total
       IN  IF total = 0 THEN 50000
           ELSE Max(0, 100000 - ((SqrtMilli(d) * 100) \div total) * 2)

\* AIDetector._analyze_sentence_uniformity (milli); std/mean of the lengths is
\* sqrt(n * sum(l^2) - sum(l)^2) / sum(l)
AI_analyze_sentence_uniformity(sentences) ==
  IF Len(sentences) < 3 THEN 50000
  ELSE LET lengths == [i \in 1..Len(sentences) |-> Len(Split(sentences[i]))]
           total   == SumSeq(lengths)
           squares == SumSeq([i \in 1..Len(lengths) |-> lengths[i] * lengths[i]])
           d       == Len(lengths) * squares - total * total
       IN  IF total = 0 THEN 50000
           ELSE Max(0, 100000 - ((SqrtMilli(d) * 100) \div total) * 2)

\* AIDetector._estimate_perplexity (milli): the entropy of the word
\* frequencies is ln T - sum(c ln c) / T, over max_entropy = ln(unique)
AI_estimate_perplexity(t) ==
  LET words == Split(Lower(t))
      total == Len(words)
      vocab == Range(words)
      freq  == [w \in vocab |-> Cardinality({i \in 1..total : words[i] = w})]
      uniq  == Cardinality(vocab)
      first == SelectSeq(Indices(total), LAMBDA i : \A j \in 1..(i - 1) : words[j] # words[i])
      clogc == SumSeq([k \in 1..Len(first) |->
                         freq[words[first[k]]] * Ln1e5(freq[words[first[k]]])])
      entropy == Ln1e5(total) - (clogc \div total)
  IN  IF total < 10 THEN 50000
      ELSE IF uniq > 1 THEN ScaledDiv(entropy, Ln1e5(uniq), 5)
      ELSE 0

\* AIDetector._calculate_burstiness (milli); a complexity is kept in centi
AI_calculate_burstiness(sentences) ==
  IF Len(sentences) < 3 THEN 50000
  ELSE LET complexity(s) ==
             LET words == Split(s)
                 chars == SumSeq([i \in 1..Len(words) |-> Len(words[i])])
             IN  (chars * Ln1e5(Len(words) + 1)) \div (Len(words) * 1000)
           complexities == [i \in 1..Len(sentences) |-> complexity(sentences[i])]
           n    == Len(complexities)
           mean == SumSeq(complexities) \div n
           variance == SumSeq([i \in 1..n |->
                          (complexities[i] - mean) * (complexities[i] - mean)]) \div n
       IN  IF mean = 0 THEN 50000
           ELSE Min(100000, ((SqrtMilli(variance) * 100) \div mean) * 2)

\* maximal runs of \w characters of s
WordRuns(s) ==
  LET st == SelectSeq(Indices(Len(s)),
              LAMBDA i : IsWordChar(Char(s, i)) /\ (i = 1 \/ ~IsWordChar(Char(s, i - 1))))
      en == SelectSeq(Indices(Len(s)),
              LAMBDA i : IsWordChar(Char(s, i)) /\ (i = Len(s) \/ ~IsWordChar(Char(s, i + 1))))
  IN  [k \in 1..Len(st) |-> SubSeq(s, st[k], en[k])]

IsAlphaLower(w) == \A i \in 1..Len(w) : IsLowerAlpha(Char(w, i))

\* the type-token ratio over every \w run, digits and underscores included
AI_vocabulary_of_word_runs(t) ==
  LET words == WordRuns(Lower(t))
  IN  IF Len(words) = 0 THEN 500
      ELSE (Cardinality(Range(words)) * 1000) \div Len(words)

\* AIDetector._analyze_vocabulary_richness (milli, 1.0 is 1000):
\* re.findall(r'\b[a-z]+\b', ...) finds the \w runs made of a-z only
AI_analyze_vocabulary_richness(t) ==
  LET words == SelectSeq(WordRuns(Lower(t)), IsAlphaLower)
  IN  IF Len(words) = 0 THEN 500
      ELSE (Cardinality(Range(words)) * 1000) \div Len(words)

\* the regex  <head> .+ <tail>  searched in s: `.` matches no newline
MatchesGap(s, head, tail) ==
  \E i \in Occurrences(s, head) :
    \E j \in Occurrences(s, tail) :
      /\ j >= i + Len(head) + 1
      /\ \A k \in (i + Len(head))..(j - 1) : Char(s, k) # "\n"

\* ai_indicators['formal_constructions']: does pattern k match somewhere in
\* the lower-cased sentence s (re.search)
FormalConstruction(k, s) ==
  CASE k = 1 -> MatchesGap(s, "it is ", " that")
    [] k = 2 -> MatchesGap(s, "there is ", " that") \/ MatchesGap(s, "there are ", " that")
    [] k = 3 -> \E v \in {"suggests", "indicates", "demonstrates", "shows"} :
                  Contains(s, "this " \o v \o " that")
    [] k = 4 -> \E a \in {"one", "we"} : \E b \in {"can", "could", "may", "might"} :
                  \E c \in {"argue", "say", "suggest"} :
                    Contains(s, a \o " " \o b \o " " \o c)

\* len(ai_indicators['formal_constructions'])
NumFormalConstructions == 4

\* sentences[:20] of _analyze_sentences
MaxAnalyzedSentences == 20

\* sentence[:100] of _analyze_sentences
MaxShownChars == 100

\* AIDetector._analyze_sentences
AI_analyze_sentences(sentences) ==
  [i \in 1..Min(Len(sentences), MaxAnalyzedSentences) |->
     LET sentence == sentences[i]
         low      == Lower(sentence)
         formal   == {k \in 1..NumFormalConstructions : FormalConstruction(k, low)}
         starts_with_transition ==
           \E w \in Range(transition_words) : StartsWith(low, w)
         score    == 20 * Cardinality(formal)
                       + (IF starts_with_transition THEN 15 ELSE 0)
     IN  [index    |-> i - 1,
          text     |-> IF Len(sentence) > MaxShownChars
                       THEN SubSeq(sentence, 1, MaxShownChars) \o "..."
                       ELSE sentence,
          ai_score |-> Min(100, score),
          flags    |-> [k \in 1..Cardinality(formal) |-> "Formal construction pattern"]
                         \o (IF starts_with_transition
                             THEN <<"Starts with transition word">> ELSE <<>>)]]

\* AIDetector._generate_explanation; score and features in milli
AI_generate_explanation(score, features) ==
  <<IF score < 30000
      THEN "This text shows characteristics typical of human writing."
    ELSE IF score < 50000
      THEN "This text has some AI-like patterns but also human characteristics."
    ELSE IF score < 70000
      THEN "This text shows several patterns common in AI-generated content."
    ELSE "This text has strong indicators of AI-generated content.">>
  \o (IF features.burstiness < 30000
      THEN <<"The writing has very consistent complexity throughout. "
             \o "Human writing typically varies more - some sentences simple, some complex.">>
      ELSE <<>>)
  \o (IF features.sentence_uniformity > 70000
      THEN <<"Sentences are very similar in length. "
             \o "Try varying your sentence structure for a more natural flow.">>
      ELSE <<>>)

\* the indicators of AIDetector.analyze, lines 89-122
AI_indicators(f) ==
  (IF f.transition_density > 3000
   THEN <<[type |-> "High transition word density",
           severity |-> IF f.transition_density < 5000 THEN "medium" ELSE "high",
           explanation |-> "AI tends to use many formal transition words"]>>
   ELSE <<>>)
  \o (IF f.filler_density > 2000
      THEN <<[type |-> "Filler phrase usage",
              severity |-> IF f.filler_density < 4000 THEN "medium" ELSE "high",
              explanation |-> "Common AI padding phrases detected"]>>
      ELSE <<>>)
  \o (IF f.sentence_uniformity > 70000
      THEN <<[type |-> "Uniform sentence structure",
              severity |-> IF f.sentence_uniformity < 80000 THEN "medium" ELSE "high",
              explanation |-> "Sentences are too similar in length - humans vary more"]>>
      ELSE <<>>)
  \o (IF f.burstiness < 30000
      THEN <<[type |-> "Low burstiness",
              severity |-> IF f.burstiness > 20000 THEN "medium" ELSE "high",
              explanation |-> "Human writing has more variation in complexity (burstiness)"]>>
      ELSE <<>>)
  \o (IF f.vocabulary_richness < 400
      THEN <<[type |-> "Limited vocabulary variety",
              severity |-> "low",
              explanation |-> "AI often uses a more limited, formal vocabulary"]>>
      ELSE <<>>)

\* the score without any cap: the weighted sum of the raw feature values
AI_score_unclamped(f) ==
  (  (f.transition_density * 15) * 15
   + (f.filler_density * 20) * 15
   + (f.hedge_density * 15) * 10
   + f.sentence_uniformity * 25
   + (100000 - f.burstiness) * 20
   + ((1000 - f.vocabulary_richness) * 100) * 15) \div 100

\* result['score'] of AIDetector.analyze, lines 127-152 (milli): the weighted
\* sum of the normalized scores, clamped; the weights are in percent
AI_score(f) ==
  LET final_score ==
        (  Min(100000, f.transition_density * 15) * 15
         + Min(100000, f.filler_density * 20) * 15
         + Min(100000, f.hedge_density * 15) * 10
         + f.sentence_uniformity * 25
         + (100000 - f.burstiness) * 20
         + ((1000 - f.vocabulary_richness) * 100) * 15) \div 100
  IN  Min(100000, Max(0, final_score))

\* AIDetector.analyze
AI_analyze(t) ==
  IF ~NonBlank(t)
  THEN [score |-> 0, indicators |-> <<>>, details |-> "Empty text provided"]
  ELSE LET sentences == AI_get_sentences(t)
           features ==
             [transition_density  |-> AI_analyze_transitions(t),
              filler_density      |-> AI_analyze_fillers(t),
              hedge_density       |-> AI_analyze_hedging(t),
              sentence_uniformity |-> AI_analyze_sentence_uniformity(sentences),
              perplexity_estimate |-> AI_estimate_perplexity(t),
              burstiness          |-> AI_calculate_burstiness(sentences),
              vocabulary_richness |-> AI_analyze_vocabulary_richness(t)]
           score == AI_score(features)
       IN  [score |-> score,
            indicators |-> AI_indicators(features),
            sentence_analysis |-> AI_analyze_sentences(sentences),
            statistical_features |-> features,
            explanation |-> AI_generate_explanation(score, features)]

(***************************************************************************)
(* Humanizer                                                               *)
(***************************************************************************)

\* Humanizer.transition_alternatives, in dictionary order
transition_alternatives ==
  <<[formal |-> "furthermore",  alternatives |-> <<"also", "plus", "and", "what's more">>],
    [formal |-> "moreover",     alternatives |-> <<"besides", "also", "and">>],
    [formal |-> "additionally", alternatives |-> <<"also", "plus", "another thing is">>],
    [formal |-> "consequently", alternatives |-> <<"so", "because of this", "as a result">>],
    [formal |-> "nevertheless", alternatives |-> <<"still", "even so", "but">>],
    [formal |-> "subsequently", alternatives |-> <<"then", "after that", "next">>],
    [formal |-> "accordingly",  alternatives |-> <<"so", "therefore">>],
    [formal |-> "hence",        alternatives |-> <<"so", "that's why">>],
    [formal |-> "thus",         alternatives |-> <<"so", "this means">>],
    [formal |-> "therefore",    alternatives |-> <<"so", "that's why", "because of this">>],
    [formal |-> "likewise",     alternatives |-> <<"similarly", "in the same way", "also">>],
    [formal |-> "however",      alternatives |-> <<"but", "still", "yet", "though">>]>>

\* Humanizer.filler_phrase_suggestions, in dictionary order
filler_phrase_suggestions ==
  <<[filler |-> "it is important to note",
     alternatives |-> <<"Note that", "Keep in mind", "Remember", "One key point:">>],
    [filler |-> "it is worth mentioning",
     alternatives |-> <<"Also", "Interestingly", "Here's something else:">>],
    [filler |-> "in other words",
     alternatives |-> <<"Put simply", "Basically", "This means">>],
    [filler |-> "as mentioned earlier",
     alternatives |-> <<"As I said", "Going back to", "Earlier I mentioned">>],
    [filler |-> "it goes without saying",
     alternatives |-> <<"Obviously", "Clearly", "Of course">>],
    [filler |-> "in this context",
     alternatives |-> <<"Here", "In this case", "With this">>]>>

\* Humanizer.formal_to_casual, in dictionary order
formal_to_casual ==
  <<[formal |-> "utilize",                        casual |-> "use"],
    [formal |-> "implement",                      casual |-> "put in place"],
    [formal |-> "facilitate",                     casual |-> "help"],
    [formal |-> "subsequent",                     casual |-> "later"],
    [formal |-> "prior to",                       casual |-> "before"],
    [formal |-> "in order to",                    casual |-> "to"],
    [formal |-> "due to the fact that",           casual |-> "because"],
    [formal |-> "at this point in time",          casual |-> "now"],
    [formal |-> "in the event that",              casual |-> "if"],
    [formal |-> "for the purpose of",             casual |-> "to"],
    [formal |-> "with regard to",                 casual |-> "about"],
    [formal |-> "in regard to",                   casual |-> "about"],
    [formal |-> "pertaining to",                  casual |-> "about"],
    [formal |-> "in light of",                    casual |-> "because of"],
    [formal |-> "on the basis of",                casual |-> "based on"],
    [formal |-> "in spite of the fact that",      casual |-> "although"],
    [formal |-> "a large number of",              casual |-> "many"],
    [formal |-> "a significant amount of",        casual |-> "much"],
    [formal |-> "the vast majority of",           casual |-> "most"],
    [formal |-> "plays a crucial role",           casual |-> "is key"],
    [formal |-> "plays an important role",        casual |-> "matters"],
    [formal |-> "it is evident that",             casual |-> "clearly"],
    [formal |-> "it is apparent that",            casual |-> "clearly"],
    [formal |-> "there is no doubt that",         casual |-> "certainly"],
    [formal |-> "it should be noted that",        casual |-> "note that"],
    [formal |-> "it is interesting to note that", casual |-> "interestingly"]>>

\* Humanizer.human_starters
human_starters ==
  <<"Here's the thing:", "What's interesting is", "The key point?", "Simply put,",
    "Look,", "Think about it:", "Here's what matters:", "The reality is",
    "Let's be clear:", "Consider this:">>

\* Humanizer._get_sentences
H_get_sentences(t) ==
  SelectSeq(SplitSentences(t), LAMBDA s : Len(s) > MinSentenceChars)

RECURSIVE SubAt(_, _, _, _, _)
\* s from position i on, with the matches of length n that start at the
\* positions of the set at replaced by rep, leftmost first and not overlapping
SubAt(s, at, n, rep, i) ==
  LET later == {a \in at : a >= i}
  IN  IF later = {} THEN SubSeq(s, i, Len(s))
      ELSE LET a == SetMin(later)
           IN  SubSeq(s, i, a - 1) \o rep \o SubAt(s, at, n, rep, a + n)

\* re.compile(re.escape(pat), re.IGNORECASE).sub(rep, s), pat in lower case
SubIgnoreCase(s, pat, rep) == SubAt(s, Occurrences(Lower(s), pat), Len(pat), rep, 1)

\* a change record of the log
Change(type, original, replacement, reason) ==
  [type |-> type, original |-> original, replacement |-> replacement, reason |-> reason]

\* the body of the if of step 1, for entry k of formal_to_casual
PhraseStep(st, k) ==
  LET formal == formal_to_casual[k].formal
      casual == formal_to_casual[k].casual
  IN  [text    |-> SubIgnoreCase(st.text, formal, casual),
       changes |-> Append(st.changes,
                     Change("phrase_replacement", formal, casual,
                            "Replaced formal phrase with simpler alternative"))]

RECURSIVE PhraseLoop(_, _)
\* the loop of step 1 from entry k of formal_to_casual on
PhraseLoop(st, k) ==
  IF k > Len(formal_to_casual) THEN st
  ELSE IF Contains(Lower(st.text), formal_to_casual[k].formal)
       THEN PhraseLoop(PhraseStep(st, k), k + 1)
       ELSE PhraseLoop(st, k + 1)

\* Step 1 of _generate_full_humanized_text: the formal-phrase replacement pass
ReplaceFormalPhrases(st) == PhraseLoop(st, 1)

\* the positions where (^|[.!?]\s+)(formal)(\s|,) finds its group 2 in the
\* lower-cased text low
TransitionMatches(low, formal) ==
  {i \in Occurrences(low, formal) :
     /\ i + Len(formal) <= Len(low)
     /\ (IsSpace(Char(low, i + Len(formal))) \/ Char(low, i + Len(formal)) = ",")
     /\ \/ i = 1
        \/ \E j \in 1..(i - 2) :
             /\ IsSentenceEnd(Char(low, j))
             /\ \A k \in (j + 1)..(i - 1) : IsSpace(Char(low, k))}

\* one iteration of the loop of step 2: the results of entry k, one for each
\* value random.choice can return
TransitionStep(st, k) ==
  LET formal  == transition_alternatives[k].formal
      alts    == transition_alternatives[k].alternatives
      matches == TransitionMatches(Lower(st.text), formal)
  IN  IF matches = {} THEN {st}
      ELSE {[text    |-> SubAt(st.text, matches, Len(formal), alts[c], 1),
             changes |-> Append(st.changes,
                           Change("transition_replacement", formal, alts[c],
                                  "Replaced formal transition with natural alternative"))]
              : c \in 1..Len(alts)}

RECURSIVE TransitionLoop(_, _)
\* the loop of step 2 from entry k of transition_alternatives on
TransitionLoop(st, k) ==
  IF k > Len(transition_alternatives) THEN {st}
  ELSE UNION {TransitionLoop(nxt, k + 1) : nxt \in TransitionStep(st, k)}

\* Step 2 of _generate_full_humanized_text, on each of the states sts
ReplaceTransitions(sts) == UNION {TransitionLoop(st, 1) : st \in sts}

\* one iteration of the loop of step 3
FillerStep(st, k) ==
  LET filler == filler_phrase_suggestions[k].filler
      alts   == filler_phrase_suggestions[k].alternatives
  IN  IF Contains(Lower(st.text), filler)
      THEN {[text    |-> SubIgnoreCase(st.text, filler, alts[c]),
             changes |-> Append(st.changes,
                           Change("filler_removal", filler, alts[c],
                                  "Removed filler phrase that adds no meaning"))]
              : c \in 1..Len(alts)}
      ELSE {st}

RECURSIVE FillerLoop(_, _)
\* the loop of step 3 from entry k of filler_phrase_suggestions on
FillerLoop(st, k) ==
  IF k > Len(filler_phrase_suggestions) THEN {st}
  ELSE UNION {FillerLoop(nxt, k + 1) : nxt \in FillerStep(st, k)}

\* Step 3 of _generate_full_humanized_text, on each of the states sts
ReplaceFillers(sts) == UNION {FillerLoop(st, 1) : st \in sts}

\* s[:n]
Prefix(s, n) == SubSeq(s, 1, Min(n, Len(s)))

\* sentence.lower().startswith(('the ', 'this '))
StartsWithTheOrThis(s) ==
  LET low == Lower(Prefix(s, 5))
  IN  StartsWith(low, "the ") \/ StartsWith(low, "this ")

RECURSIVE VarietyLoopKeepingCount(_, _, _, _, _)
\* the loop of step 4 without the reset of consecutive_the_count after a
\* starter has been added
VarietyLoopKeepingCount(sentences, i, count, out, changes) ==
  IF i > Len(sentences) THEN {[sentences |-> out, changes |-> changes]}
  ELSE LET sentence == sentences[i]
       IN  IF StartsWithTheOrThis(sentence)
           THEN IF count + 1 >= 2
                THEN VarietyLoopKeepingCount(sentences, i + 1, count + 1,
                                             Append(out, sentence), changes)
                     \cup UNION {
                       LET modified == human_starters[c] \o " "
                                         \o LowerChar(Char(sentence, 1))
                                         \o SubSeq(sentence, 2, Len(sentence))
                       IN  VarietyLoopKeepingCount(sentences, i + 1, count + 1,
                             Append(out, modified),
                             Append(changes,
                               Change("variety_addition",
                                      Prefix(sentence, 30) \o "...",
                                      Prefix(modified, 40) \o "...",
                                      "Added variety to avoid repetitive sentence starts")))
                       : c \in 1..Len(human_starters)}
                ELSE VarietyLoopKeepingCount(sentences, i + 1, count + 1,
                                             Append(out, sentence), changes)
           ELSE VarietyLoopKeepingCount(sentences, i + 1, 0, Append(out, sentence), changes)

RECURSIVE VarietyLoop(_, _, _, _, _)
\* the loop of step 4 from sentence i on: consecutive_the_count is count, out
\* is humanized_sentences; one result for each outcome of random.random() and
\* random.choice
VarietyLoop(sentences, i, count, out, changes) ==
  IF i > Len(sentences) THEN {[sentences |-> out, changes |-> changes]}
  ELSE LET sentence == sentences[i]
       IN  IF StartsWithTheOrThis(sentence)
           THEN IF count + 1 >= 2
                THEN VarietyLoop(sentences, i + 1, count + 1, Append(out, sentence), changes)
                     \cup UNION {
                       LET modified == human_starters[c] \o " "
                                         \o LowerChar(Char(sentence, 1))
                                         \o SubSeq(sentence, 2, Len(sentence))
                       IN  VarietyLoop(sentences, i + 1, 0, Append(out, modified),
                             Append(changes,
                               Change("variety_addition",
                                      Prefix(sentence, 30) \o "...",
                                      Prefix(modified, 40) \o "...",
                                      "Added variety to avoid repetitive sentence starts")))
                       : c \in 1..Len(human_starters)}
                ELSE VarietyLoop(sentences, i + 1, count + 1, Append(out, sentence), changes)
           ELSE VarietyLoop(sentences, i + 1, 0, Append(out, sentence), changes)

\* Step 4 of _generate_full_humanized_text, on the result st of steps 1-3
AddVariety(st) == VarietyLoop(H_get_sentences(st.text), 1, 0, <<>>, st.changes)

\* split_words of step 5
split_words == <<"and", "but", "which", "that", "because", "while", "although">>

\* len(words) > 40
LongSentenceWords == 40

\* the window mid_point - 10 < idx < mid_point + 10
SplitWindow == 10

\* words.index(w) + 1, or 0 when w is not in words (ValueError)
FirstIndex(words, w) ==
  LET at == {i \in 1..Len(words) : words[i] = w}
  IN  IF at = {} THEN 0 ELSE SetMin(at)

\* split_index of step 5 (0-based as in the code), or -1 for None
SplitIndex(words) ==
  LET mid_point == Len(words) \div 2
      ok(k) == LET idx == FirstIndex(words, split_words[k]) - 1
               IN  idx >= 0 /\ mid_point - SplitWindow < idx /\ idx < mid_point + SplitWindow
      found == {k \in 1..Len(split_words) : ok(k)}
  IN  IF found = {} THEN -1 ELSE FirstIndex(words, split_words[SetMin(found)]) - 1

\* str.capitalize()
Capitalize(s) ==
  IF s = "" THEN "" ELSE UpperChar(Char(s, 1)) \o Lower(SubSeq(s, 2, Len(s)))

\* the body of the loop of step 5 for one sentence: the sentences it appends
\* to final_sentences and the changes it records
SplitLongSentence(sentence) ==
  LET words == Split(sentence)
      split_index == IF Len(words) > LongSentenceWords THEN SplitIndex(words) ELSE -1
  IN  IF split_index > 0
      THEN LET first  == Join(" ", SubSeq(words, 1, split_index))
               second == Join(" ", SubSeq(words, split_index + 1, Len(words)))
               second_part == IF StartsWith(second, "and ") \/ StartsWith(second, "but ")
                              THEN UpperChar(Char(second, 1)) \o SubSeq(second, 2, Len(second))
                              ELSE Capitalize(second)
               first_part  == IF EndsWith(first, ".") THEN first ELSE first \o "."
           IN  [out |-> <<first_part, second_part>>,
                changes |-> <<Change("sentence_split",
                                Prefix(sentence, 40) \o "...",
                                Prefix(first_part, 20) \o "... | "
                                  \o Prefix(second_part, 20) \o "...",
                                "Split long sentence for better readability")>>]
      ELSE [out |-> <<sentence>>, changes |-> <<>>]

RECURSIVE SplitLoop(_, _, _, _)
SplitLoop(sentences, i, out, changes) ==
  IF i > Len(sentences) THEN [sentences |-> out, changes |-> changes]
  ELSE LET r == SplitLongSentence(sentences[i])
       IN  SplitLoop(sentences, i + 1, out \o r.out, changes \o r.changes)

\* Step 5 of _generate_full_humanized_text, on a result v of step 4
SplitLongSentences(v) == SplitLoop(v.sentences, 1, <<>>, v.changes)

\* questions of step 6
questions ==
  <<"What does this mean in practice?", "Why does this matter?",
    "So what's the takeaway?", "But here's the real question:">>

\* len(final_sentences) > 5
QuestionMinSentences == 5

\* insert_pos = min(3, ...)
QuestionPos == 3

\* list.append(x), whatever pos is
InsertLast(q, pos, x) == Append(q, x)

\* list.insert(pos, x), pos 0-based
Insert(q, pos, x) == SubSeq(q, 1, pos) \o <<x>> \o SubSeq(q, pos + 1, Len(q))

\* Step 6 of _generate_full_humanized_text and its return, on the result w of
\* step 5 of the sentences hs: the values the function can return
AddQuestion(w, hs) ==
  LET humanized_text == Join(" ", w.sentences)
  IN  IF Len(w.sentences) > QuestionMinSentences /\ ~Contains(humanized_text, "?")
      THEN {LET final == Insert(w.sentences,
                                Min(QuestionPos, Len(w.sentences) - 1), questions[c])
            IN  [humanized_text |-> Join(" ", final),
                 changes |-> Append(w.changes,
                   Change("question_addition", "(no questions)", questions[c],
                     "Added rhetorical question to engage reader (human writers ask questions)")),
                 humanized_sentences |-> hs,
                 split_sentences |-> w.sentences,
                 final_sentences |-> final]
             : c \in 1..Len(questions)}
      ELSE {[humanized_text |-> humanized_text,
             changes |-> w.changes,
             humanized_sentences |-> hs,
             split_sentences |-> w.sentences,
             final_sentences |-> w.sentences]}

\* steps 4-6 on one result of steps 1-3
SentencePasses(st) ==
  UNION {AddQuestion(SplitLongSentences(v), v.sentences) : v \in AddVariety(st)}

\* the pipeline with the filler pass run before the transition pass
H_passes_filler_first(t) ==
  UNION {SentencePasses(st) :
           st \in ReplaceTransitions(ReplaceFillers(
                    {ReplaceFormalPhrases([text |-> t, changes |-> <<>>])}))}

\* Humanizer._generate_full_humanized_text(text, sentences): the values it can
\* return, one for each outcome of the random draws.  Besides humanized_text
\* and changes a value carries the locals humanized_sentences (after step 4),
\* final_sentences after step 5 (split_sentences) and at the return.
H_generate_full_humanized_text(t) ==
  UNION {SentencePasses(st) :
           st \in ReplaceFillers(ReplaceTransitions(
                    {ReplaceFormalPhrases([text |-> t, changes |-> <<>>])}))}

\* range(min(max_len, 20))
MaxComparisons == 20

\* get_comparison_data with a row for every index below max_len
H_comparison_rows_uncapped(original_text, humanized_text) ==
  LET original_sentences  == H_get_sentences(original_text)
      humanized_sentences == H_get_sentences(humanized_text)
      max_len == Max(Len(original_sentences), Len(humanized_sentences))
  IN  [comparisons |->
         [i \in 1..max_len |->
            LET orig  == IF i <= Len(original_sentences) THEN original_sentences[i] ELSE ""
                human == IF i <= Len(humanized_sentences) THEN humanized_sentences[i] ELSE ""
            IN  [index |-> i, original |-> orig, humanized |-> human,
                 changed |-> orig # human]],
       original_word_count |-> Len(Split(original_text)),
       humanized_word_count |-> Len(Split(humanized_text)),
       total_sentences_original |-> Len(original_sentences),
       total_sentences_humanized |-> Len(humanized_sentences)]

\* Humanizer.get_comparison_data
H_get_comparison_data(original_text, humanized_text) ==
  LET original_sentences  == H_get_sentences(original_text)
      humanized_sentences == H_get_sentences(humanized_text)
      max_len == Max(Len(original_sentences), Len(humanized_sentences))
  IN  [comparisons |->
         [i \in 1..Min(max_len, MaxComparisons) |->
            LET orig  == IF i <= Len(original_sentences) THEN original_sentences[i] ELSE ""
                human == IF i <= Len(humanized_sentences) THEN humanized_sentences[i] ELSE ""
            IN  [index |-> i, original |-> orig, humanized |-> human,
                 changed |-> orig # human]],
       original_word_count |-> Len(Split(original_text)),
       humanized_word_count |-> Len(Split(humanized_text)),
       total_sentences_original |-> Len(original_sentences),
       total_sentences_humanized |-> Len(humanized_sentences)]

(***************************************************************************)
(* Input texts: concatenations of a few fragments                          *)
(***************************************************************************)

\* the largest number of fragments in an input text
MaxFrags == 2

RECURSIVE Concats(_, _)
\* the texts made of at most n fragments of the set F, separated by a space
Concats(F, n) ==
  IF n = 0 THEN {""}
  ELSE LET shorter == Concats(F, n - 1)
       IN  shorter \cup {IF t = "" THEN f ELSE f \o " " \o t : f \in F, t \in shorter}

AIFragments ==
  {"Furthermore, it is important to note that this plays a crucial role.",
   "Thus we can say that this shows that cats lose!",
   "thus hence\n",
   "It is clear that dogs are generally better.",
   "One two three four. Five six seven eight nine ten. Go now my friend!",
   "In other words it is worth mentioning; needless to say.",
   "  ",
   "Hi."}

AITexts == Concats(AIFragments, MaxFrags)

(***************************************************************************)
(* AIDetector.analyze as a state machine: a text is submitted, analyze     *)
(* returns its result                                                      *)
(***************************************************************************)

NoResult == <<>>

InitAI ==
  /\ op = "start"
  /\ text \in AITexts
  /\ other = ""
  /\ res = NoResult
  /\ corpus = <<>>
  /\ corpus_sources = <<>>

AIAnalyze ==
  /\ op = "start"
  /\ op' = "ai_analyze"
  /\ res' = AI_analyze(text)
  /\ UNCHANGED <<text, other, corpus, corpus_sources>>

NextAI == AIAnalyze

SpecAI == InitAI /\ [][NextAI]_vars

\* C1: every score AIDetector.analyze returns lies in [0, 100]
C1_AIScoreInRange ==
  op = "ai_analyze" => (res.score >= 0 /\ res.score <= 100000)

\* a non-empty text whose transition score is cut to 100 by the normalization
C1_Witness ==
  /\ op = "ai_analyze"
  /\ "statistical_features" \in DOMAIN res
  /\ res.statistical_features.transition_density * 15 > 100000
  /\ res.score > 0

\* C3: empty or whitespace-only text gets score 0, no indicators and an
\* explanation field holding "Empty text provided"
C3_EmptyTextResult ==
  (op = "ai_analyze" /\ ~NonBlank(text)) =>
     /\ res.score = 0
     /\ res.indicators = <<>>
     /\ "explanation" \in DOMAIN res
     /\ res.explanation \in {"Empty text provided", <<"Empty text provided">>}

\* a word of the transition list, followed by a comma, starts a sentence of t
StartsSentenceWithTransitionComma(t) ==
  LET words == Split(Lower(t))
  IN  \E k \in 1..Len(words) :
        /\ \E w \in Range(transition_words) : words[k] = w \o ","
        /\ k = 1 \/ IsSentenceEnd(Char(words[k - 1], Len(words[k - 1])))

\* C8: a transition word that starts a sentence and is followed by a comma is
\* counted: the transition density is greater than 0
C8_TransitionWithCommaCounted ==
  (op = "ai_analyze" /\ StartsSentenceWithTransitionComma(text)) =>
     res.statistical_features.transition_density > 0

\* C18: each of the first 20 sentences gets ai_score 20 if it matches at least
\* one formal-construction pattern (once, however many match) plus 15 if it
\* starts with a transition word, a value among 0, 15, 20 and 35; later
\* sentences get no entry.
C18_SentenceScoreOncePerSentence ==
  (op = "ai_analyze" /\ NonBlank(text)) =>
    LET sentences == AI_get_sentences(text)
    IN  /\ Len(res.sentence_analysis) = Min(Len(sentences), MaxAnalyzedSentences)
        /\ \A i \in 1..Len(res.sentence_analysis) :
             LET low == Lower(sentences[i])
                 formal == \E k \in 1..NumFormalConstructions : FormalConstruction(k, low)
                 starts == \E w \in Range(transition_words) : StartsWith(low, w)
             IN  /\ res.sentence_analysis[i].ai_score
                      = (IF formal THEN 20 ELSE 0) + (IF starts THEN 15 ELSE 0)
                 /\ res.sentence_analysis[i].ai_score \in {0, 15, 20, 35}

(***************************************************************************)
(* The formal-phrase replacement pass, applied to a text and then to its   *)
(* own output                                                              *)
(***************************************************************************)

PhraseFragments ==
  {"prior", "in order to", "for the purpose of", "Utilize", "we go", "due",
   "to the fact that it plays a crucial role", "in light of"}

PhraseTexts == Concats(PhraseFragments, MaxFrags)

InitPhrase ==
  /\ op = "start"
  /\ text \in PhraseTexts
  /\ other = ""
  /\ res = NoResult
  /\ corpus = <<>>
  /\ corpus_sources = <<>>

\* step 1 on the submitted text
PhrasePass ==
  /\ op = "start"
  /\ op' = "phrase_pass"
  /\ res' = ReplaceFormalPhrases([text |-> text, changes |-> <<>>])
  /\ UNCHANGED <<text, other, corpus, corpus_sources>>

\* step 1 on the output of step 1; other keeps the text it was applied to
PhrasePassAgain ==
  /\ op = "phrase_pass"
  /\ op' = "phrase_pass_again"
  /\ other' = res.text
  /\ res' = ReplaceFormalPhrases([text |-> res.text, changes |-> <<>>])
  /\ UNCHANGED <<text, corpus, corpus_sources>>

NextPhrase == PhrasePass \/ PhrasePassAgain

SpecPhrase == InitPhrase /\ [][NextPhrase]_vars

\* C4: the formal-phrase pass applied to its own output changes nothing and
\* records nothing: no formal phrase of the table is left after one pass
C4_PhrasePassIdempotent ==
  /\ op = "phrase_pass" =>
       \A k \in 1..Len(formal_to_casual) :
         ~Contains(Lower(res.text), formal_to_casual[k].formal)
  /\ op = "phrase_pass_again" => (res.changes = <<>> /\ res.text = other)

(***************************************************************************)
(* The rewrite pipeline                                                    *)
(***************************************************************************)

\* 22 words, "because", 22 words: 45 words with a conjunction at the midpoint
LongBecause ==
  "go go go go go go go go go go go go go go go go go go go go go go because "
  \o "Go Go Go Go Go Go Go Go Go Go Go Go Go Go Go Go Go Go Go Go Go on."

\* 45 words, "and" as second and as 23rd word
LongAndTwice ==
  "go and go go go go go go go go go go go go go go go go go go go go and "
  \o "go go go go go go go go go go go go go go go go go go go go go on."

HumFragments ==
  {"Furthermore, it is important to note that this plays a crucial role.",
   LongBecause,
   LongAndTwice,
   "The cat sat on the mat. The dog ran to the park. We like them all a lot. Nobody knows it all.",
   "Hi.  Is it really so?"}

HumTexts == Concats(HumFragments, MaxFrags)

InitHum ==
  /\ op = "start"
  /\ text \in HumTexts
  /\ other = ""
  /\ res = NoResult
  /\ corpus = <<>>
  /\ corpus_sources = <<>>

\* _generate_full_humanized_text, called by analyze_and_suggest for a text
\* that is not blank
GenerateFullHumanizedText ==
  /\ op = "start"
  /\ NonBlank(text)
  /\ op' = "humanize"
  /\ res' \in H_generate_full_humanized_text(text)
  /\ UNCHANGED <<text, other, corpus, corpus_sources>>

NextHum == GenerateFullHumanizedText

SpecHum == InitHum /\ [][NextHum]_vars

\* C5: an empty change list means that the humanized text is the input text
C5_NoChangeNoEdit ==
  (op = "humanize" /\ res.changes = <<>>) => res.humanized_text = text

\* the passes in their order
PassRank(type) ==
  CASE type = "phrase_replacement"     -> 1
    [] type = "transition_replacement" -> 2
    [] type = "filler_removal"         -> 3
    [] type = "variety_addition"       -> 4
    [] type = "sentence_split"         -> 5
    [] type = "question_addition"      -> 6

\* C6: the change log is ordered by pass, and holds at most one
\* question_addition record, which is then the last one
C6_ChangesOrderedByPass ==
  op = "humanize" =>
    /\ \A i \in 1..Len(res.changes) : \A j \in 1..Len(res.changes) :
         i < j => PassRank(res.changes[i].type) <= PassRank(res.changes[j].type)
    /\ \A i \in 1..Len(res.changes) :
         res.changes[i].type = "question_addition" => i = Len(res.changes)

\* a log with records of the variety, the splitting and the question pass
C6_Witness ==
  /\ op = "humanize"
  /\ \E i, j, k \in 1..Len(res.changes) :
       /\ res.changes[i].type = "variety_addition"
       /\ res.changes[j].type = "sentence_split"
       /\ res.changes[k].type = "question_addition"

\* sentence has more than 40 words and one of the conjunctions as a word within
\* 10 words of its midpoint
HasConjunctionNearMidpoint(sentence) ==
  LET words == Split(sentence)
      mid   == Len(words) \div 2
  IN  /\ Len(words) > LongSentenceWords
      /\ \E i \in 1..Len(words) :
           /\ words[i] \in Range(split_words)
           /\ mid - SplitWindow < i - 1
           /\ i - 1 < mid + SplitWindow

\* number of records of the given type in a change list
CountType(changes, type) ==
  Cardinality({i \in 1..Len(changes) : changes[i].type = type})

\* C7: the sentences with a conjunction near the midpoint, and only they, are
\* split in two with one sentence_split record each
C7_LongSentencesSplit ==
  op = "humanize" =>
    LET eligible == {i \in 1..Len(res.humanized_sentences) :
                       HasConjunctionNearMidpoint(res.humanized_sentences[i])}
    IN  /\ Len(res.split_sentences)
             = Len(res.humanized_sentences) + Cardinality(eligible)
        /\ CountType(res.changes, "sentence_split") = Cardinality(eligible)

\* C27: a split keeps the words of the sentence: the words of the two parts,
\* taken together, are the words of the sentence, except that the last word of
\* the first part may have got a period and the first word of the second part
\* may differ in the case of its first letter.
C27_SplitKeepsWords ==
  (op = "humanize" /\ Len(res.humanized_sentences) = 1 /\ Len(res.split_sentences) = 2) =>
    LET words  == Split(res.humanized_sentences[1])
        first  == Split(res.split_sentences[1])
        second == Split(res.split_sentences[2])
        parts  == first \o second
    IN  /\ Len(parts) = Len(words)
        /\ \A i \in 1..Len(words) :
             \/ parts[i] = words[i]
             \/ i = Len(first) /\ parts[i] = words[i] \o "."
             \/ /\ i = Len(first) + 1
                /\ Len(parts[i]) = Len(words[i])
                /\ LowerChar(Char(parts[i], 1)) = LowerChar(Char(words[i], 1))
                /\ SubSeq(parts[i], 2, Len(parts[i])) = SubSeq(words[i], 2, Len(words[i]))

\* the question pass found more than 5 sentences and no '?' in their joined text
QuestionPassFires ==
  /\ Len(res.split_sentences) > 5
  /\ ~Contains(Join(" ", res.split_sentences), "?")

\* C19: the question pass inserts a question exactly when the sentence list
\* after the splitting pass has more than 5 sentences and their joined text
\* holds no '?'; the question then sits at list index 3 (the fourth
\* sentence), the other sentences keep their order, and the log gets exactly
\* one question_addition record; otherwise the list is left as it is.
C19_QuestionInsertion ==
  op = "humanize" =>
    LET before == res.split_sentences
        after  == res.final_sentences
        n      == Len(before)
    IN  IF QuestionPassFires
        THEN /\ Len(after) = n + 1
             /\ after[4] \in Range(questions)
             /\ SubSeq(after, 1, 3) = SubSeq(before, 1, 3)
             /\ SubSeq(after, 5, n + 1) = SubSeq(before, 4, n)
             /\ CountType(res.changes, "question_addition") = 1
             /\ res.changes[Len(res.changes)].replacement = after[4]
             /\ res.humanized_text = Join(" ", after)
        ELSE /\ after = before
             /\ CountType(res.changes, "question_addition") = 0
             /\ res.humanized_text = Join(" ", before)

\* eight sentences without a question mark: a question is the fourth sentence
\* of the result
C19_Witness ==
  /\ op = "humanize"
  /\ QuestionPassFires
  /\ Len(res.split_sentences) = 8
  /\ Len(res.final_sentences) = 9
  /\ res.final_sentences[4] = "Why does this matter?"

(***************************************************************************)
(* get_comparison_data                                                     *)
(***************************************************************************)

\* the largest number of copies of a fragment in a compared text
MaxRepeat == 21

RECURSIVE Repeat(_, _)
\* k copies of f, separated by a space
Repeat(f, k) == IF k = 0 THEN "" ELSE IF k = 1 THEN f ELSE f \o " " \o Repeat(f, k - 1)

CmpFragments ==
  {"The cat sat on the mat.", "Hi.", "Is it really so? Yes it is so today."}

CmpTexts == {Repeat(f, k) : f \in CmpFragments, k \in 0..MaxRepeat}

InitCmp ==
  /\ op = "start"
  /\ text \in CmpTexts
  /\ other \in {text, text \o " We like them all a lot.", "Nobody knows it all."}
  /\ res = NoResult
  /\ corpus = <<>>
  /\ corpus_sources = <<>>

\* get_comparison_data(original_text = text, humanized_text = other)
GetComparisonData ==
  /\ op = "start"
  /\ op' = "compare"
  /\ res' = H_get_comparison_data(text, other)
  /\ UNCHANGED <<text, other, corpus, corpus_sources>>

NextCmp == GetComparisonData

SpecCmp == InitCmp /\ [][NextCmp]_vars

\* C10: a text compared with itself: no row is changed, the word counts and
\* the sentence counts agree, and there are min(20, retained sentences) rows
C10_CompareWithItself ==
  (op = "compare" /\ other = text) =>
    /\ \A i \in 1..Len(res.comparisons) : res.comparisons[i].changed = FALSE
    /\ res.original_word_count = res.humanized_word_count
    /\ res.total_sentences_original = res.total_sentences_humanized
    /\ Len(res.comparisons) = Min(20, Len(H_get_sentences(text)))

\* a text of more than 20 retained sentences compared with itself
C10_Witness ==
  /\ op = "compare"
  /\ other = text
  /\ res.total_sentences_original > 20
  /\ Len(res.comparisons) = 20

(***************************************************************************)
(* PlagiarismDetector                                                      *)
(***************************************************************************)

RECURSIVE PunctToSpaceRange(_, _, _)
PunctToSpaceRange(s, i, j) ==
  IF i > j THEN ""
  ELSE IF i = j
       THEN (IF IsWordChar(Char(s, i)) \/ IsSpace(Char(s, i)) THEN Char(s, i) ELSE " ")
  ELSE LET m == (i + j) \div 2
       IN  PunctToSpaceRange(s, i, m) \o PunctToSpaceRange(s, m + 1, j)

\* PlagiarismDetector.preprocess_text: lower case, [^\w\s] to a space, runs
\* of whitespace to one space, strip
P_preprocess_text(t) ==
  LET low == Lower(t)
  IN  Join(" ", Split(PunctToSpaceRange(low, 1, Len(low))))

\* PlagiarismDetector.get_sentences
P_get_sentences(t) == SplitSentences(t)

\* stop_words='english' of the vectorizer: the words of the list of
\* scikit-learn that the texts of this model use
english_stop_words ==
  {"a", "about", "all", "an", "and", "are", "as", "at", "be", "been", "become",
   "but", "by", "can", "due", "first", "for", "from", "has", "have", "in",
   "is", "it", "its", "more", "no", "not", "of", "on", "or", "other", "so",
   "than", "that", "the", "them", "then", "there", "these", "they", "third",
   "this", "to", "was", "we", "were", "which", "who", "will", "with", "you"}

\* the tokens of the vectorizer, with the case of the document kept
P_tokenize_cased(doc) ==
  SelectSeq(WordRuns(doc), LAMBDA w : Len(w) >= 2 /\ w \notin english_stop_words)

\* the tokens the vectorizer finds in a document: lowercase=True, token_pattern
\* \b\w\w+\b, stop words removed
P_tokenize(doc) ==
  SelectSeq(WordRuns(Lower(doc)), LAMBDA w : Len(w) >= 2 /\ w \notin english_stop_words)

\* ngram_range=(1, 3): the terms of a document, with their repetitions
P_ngrams(tokens) ==
  LET n == Len(tokens)
  IN  tokens
      \o [i \in 1..Max(0, n - 1) |-> tokens[i] \o " " \o tokens[i + 1]]
      \o [i \in 1..Max(0, n - 2) |->
            tokens[i] \o " " \o tokens[i + 1] \o " " \o tokens[i + 2]]

\* the sequence q, as a tuple of its values
Tuple(q) == SubSeq(q, 1, Len(q))

\* the values of q without their repetitions, in the order of q
Distinct(q) ==
  LET first == SelectSeq(Indices(Len(q)), LAMBDA i : \A j \in 1..(i - 1) : q[j] # q[i])
  IN  Tuple([m \in 1..Len(first) |-> q[first[m]]])

\* the term sequences of the documents handed to fit_transform
P_terms(docs) == Tuple([k \in 1..Len(docs) |-> P_ngrams(P_tokenize(docs[k]))])

\* fit_transform raises ValueError: empty vocabulary
P_empty_vocabulary(G) == \A k \in 1..Len(G) : G[k] = <<>>

\* term frequency of t in the term sequence g
P_tf(g, t) == Cardinality({j \in 1..Len(g) : g[j] = t})

\* smooth idf of t, ln((1 + n) / (1 + df)) + 1, in hundredths; G holds the
\* term sequences of the n documents
P_idf(G, t) ==
  LET n  == Len(G)
      df == Cardinality({k \in 1..n : \E j \in 1..Len(G[k]) : G[k][j] = t})
  IN  (Ln1e5(1 + n) - Ln1e5(1 + df)) \div 1000 + 100

\* one row of the tf-idf matrix of the term sequences G before normalization:
\* the distinct terms of document k and their weights tf * idf
P_tfidf_row(G, k) ==
  LET terms == Distinct(G[k])
  IN  [terms   |-> terms,
       weights |-> Tuple([m \in 1..Len(terms) |->
                            P_tf(G[k], terms[m]) * P_idf(G, terms[m])])]

\* the tf-idf matrix of the term sequences G before normalization
P_tfidf(G) == Tuple([k \in 1..Len(G) |-> P_tfidf_row(G, k)])

\* the weight of the term t in the row r, 0 for a term r does not have
P_weight(r, t) ==
  LET at == {m \in 1..Len(r.terms) : r.terms[m] = t}
  IN  IF at = {} THEN 0 ELSE r.weights[CHOOSE m \in at : TRUE]

\* the inner product of the rows a and b of the matrix M
P_dot(M, a, b) ==
  SumSeq(Tuple([m \in 1..Len(M[a].terms) |->
                  M[a].weights[m] * P_weight(M[b], M[a].terms[m])]))

\* cosine_similarity of the rows a and b of M (milli); a zero row gives 0
P_cosine(M, a, b) ==
  LET sa == P_dot(M, a, a)
      sb == P_dot(M, b, b)
  IN  IF sa = 0 \/ sb = 0 THEN 0
      ELSE ScaledDiv(P_dot(M, a, b), Isqrt(sa) * Isqrt(sb), 3)

\* if sim > 0.3
FlagThreshold == 300

\* max(similarities)
SeqMax(q) == CHOOSE x \in Range(q) : \A y \in Range(q) : y <= x

\* _check_against_corpus flagging every document of similarity above 0
P_check_flagging_any(t, docs, sources) ==
  LET G == P_terms(docs \o <<t>>)
      tfidf_matrix == P_tfidf(G)
      similarities == Tuple([i \in 1..Len(docs) |-> P_cosine(tfidf_matrix, Len(docs) + 1, i)])
      zipped == SelectSeq(Indices(Min(Len(similarities), Len(sources))),
                          LAMBDA i : similarities[i] > 0)
  IN  IF P_empty_vocabulary(G)
      THEN [corpus_score |-> 0, flagged_matches |-> <<>>]
      ELSE [corpus_score |->
              (IF Len(similarities) > 0 THEN SeqMax(similarities) ELSE 0) * 100,
            flagged_matches |->
              [m \in 1..Len(zipped) |->
                 [source |-> sources[zipped[m]],
                  similarity |-> similarities[zipped[m]],
                  match_index |-> zipped[m] - 1]]]

\* PlagiarismDetector._check_against_corpus(text, sentences) with self.corpus
\* = docs and self.corpus_sources = sources; similarities are in milli and
\* corpus_score in milli of a score
P_check_against_corpus(t, docs, sources) ==
  LET G == P_terms(docs \o <<t>>)
      tfidf_matrix == P_tfidf(G)
      similarities == Tuple([i \in 1..Len(docs) |-> P_cosine(tfidf_matrix, Len(docs) + 1, i)])
      zipped == SelectSeq(Indices(Min(Len(similarities), Len(sources))),
                          LAMBDA i : similarities[i] > FlagThreshold)
  IN  IF P_empty_vocabulary(G)
      THEN [corpus_score |-> 0, flagged_matches |-> <<>>]
      ELSE [corpus_score |->
              (IF Len(similarities) > 0 THEN SeqMax(similarities) ELSE 0) * 100,
            flagged_matches |->
              [m \in 1..Len(zipped) |->
                 [source |-> sources[zipped[m]],
                  similarity |-> similarities[zipped[m]],
                  match_index |-> zipped[m] - 1]]]

\* common_patterns of _detect_common_phrases
common_patterns ==
  <<"according to (the )?(research|study|findings)",
    "it (is|has been) (widely )?(known|accepted|believed)",
    "in (this|the) (context|regard|respect)",
    "(plays|play) (a |an )?(important|crucial|vital|key) role",
    "in (recent|modern) (years|times)",
    "(has|have) (become|been) (increasingly|more)",
    "it (is|can be) (argued|said|noted) that",
    "(first|second|third)(ly)?[,\\s]",
    "in (conclusion|summary)",
    "on the other hand",
    "as (a |)result",
    "due to (the fact|this)">>

\* pattern k of common_patterns as the sequence of its groups, each the set
\* of its alternatives; an optional group has the alternative ""
PatternGroups(k) ==
  CASE k = 1  -> <<{"according to "}, {"the ", ""}, {"research", "study", "findings"}>>
    [] k = 2  -> <<{"it "}, {"is", "has been"}, {" "}, {"widely ", ""},
                   {"known", "accepted", "believed"}>>
    [] k = 3  -> <<{"in "}, {"this", "the"}, {" "}, {"context", "regard", "respect"}>>
    [] k = 4  -> <<{"plays", "play"}, {" "}, {"a ", "an ", ""},
                   {"important", "crucial", "vital", "key"}, {" role"}>>
    [] k = 5  -> <<{"in "}, {"recent", "modern"}, {" "}, {"years", "times"}>>
    [] k = 6  -> <<{"has", "have"}, {" "}, {"become", "been"}, {" "},
                   {"increasingly", "more"}>>
    [] k = 7  -> <<{"it "}, {"is", "can be"}, {" "}, {"argued", "said", "noted"},
                   {" that"}>>
    [] k = 8  -> <<{"first", "second", "third"}, {"ly", ""}, {",", " ", "\n", "\t"}>>
    [] k = 9  -> <<{"in "}, {"conclusion", "summary"}>>
    [] k = 10 -> <<{"on the other hand"}>>
    [] k = 11 -> <<{"as "}, {"a ", ""}, {"result"}>>
    [] k = 12 -> <<{"due to "}, {"the fact", "this"}>>

RECURSIVE MatchesAt(_, _, _, _)
\* the groups from g on match the string low at position i
MatchesAt(low, i, groups, g) ==
  \/ g > Len(groups)
  \/ \E a \in groups[g] :
       StartsWithAt(low, a, i) /\ MatchesAt(low, i + Len(a), groups, g + 1)

\* len(re.findall(pattern k, low)): the positions where a match starts
PatternCount(k, low) ==
  Cardinality({i \in 1..Len(low) : MatchesAt(low, i, PatternGroups(k), 1)})

\* PlagiarismDetector._detect_common_phrases
P_detect_common_phrases(t) ==
  LET text_lower == Lower(t)
      found == SelectSeq(Indices(Len(common_patterns)),
                         LAMBDA k : PatternCount(k, text_lower) > 0)
  IN  [m \in 1..Len(found) |->
         [pattern |-> common_patterns[found[m]],
          count   |-> PatternCount(found[m], text_lower)]]

\* PlagiarismDetector._calculate_internal_similarity (milli of a score): the
\* mean of the similarities of the pairs of sentences, times 100
P_calculate_internal_similarity(sentences) ==
  LET G     == P_terms(sentences)
      tfidf_matrix == P_tfidf(G)
      n     == Len(sentences)
      pairs == {<<i, j>> \in (1..n) \X (1..n) : i < j}
      sims  == [i \in 1..n |-> SumSeq([j \in 1..n |->
                                 IF i < j THEN P_cosine(tfidf_matrix, i, j) ELSE 0])]
  IN  IF n < 2 THEN 0
      ELSE IF P_empty_vocabulary(G) THEN 0
      ELSE (SumSeq(sims) * 100) \div Cardinality(pairs)

\* the weighted score without the cap of 100
P_score_unclamped(has_corpus, corpus_score, phrases, internal_score) ==
  IF has_corpus
  THEN (corpus_score * 7) \div 10 + phrases * 5000
  ELSE phrases * 10000 + (internal_score * 3) \div 10

\* the score with 0.3 * internal_score added in both branches
P_score_with_internal(has_corpus, corpus_score, phrases, internal_score) ==
  Min(100000, (IF has_corpus THEN (corpus_score * 7) \div 10 + phrases * 5000
                             ELSE phrases * 10000)
                + (internal_score * 3) \div 10)

\* result['score'] of PlagiarismDetector.analyze, lines 83-86 (milli)
P_score(has_corpus, corpus_score, phrases, internal_score) ==
  IF has_corpus
  THEN Min(100000, (corpus_score * 7) \div 10 + phrases * 5000)
  ELSE Min(100000, phrases * 10000 + (internal_score * 3) \div 10)

\* PlagiarismDetector.analyze(text) with self.corpus = docs and
\* self.corpus_sources = sources
P_analyze(t, docs, sources) ==
  IF ~NonBlank(t)
  THEN [score |-> 0, flagged_sentences |-> <<>>, details |-> "Empty text provided"]
  ELSE LET processed_text == P_preprocess_text(t)
           sentences      == P_get_sentences(t)
           checked        == P_check_against_corpus(processed_text, docs, sources)
           common_phrases == P_detect_common_phrases(t)
           internal_score == P_calculate_internal_similarity(sentences)
           base == [score |-> P_score(docs # <<>>,
                                      IF docs # <<>> THEN checked.corpus_score ELSE 0,
                                      Len(common_phrases), internal_score),
                    flagged_sentences |-> <<>>,
                    sentence_scores |-> <<>>,
                    common_phrases |-> common_phrases,
                    details |-> <<>>,
                    internal_similarity |-> internal_score]
       IN  IF docs # <<>>
           THEN [f \in DOMAIN base \cup {"corpus_score", "flagged_matches"} |->
                   IF f = "corpus_score" THEN checked.corpus_score
                   ELSE IF f = "flagged_matches" THEN checked.flagged_matches
                   ELSE base[f]]
           ELSE base

(***************************************************************************)
(* The similarity detector and its corpus                                  *)
(***************************************************************************)

\* the largest number of documents added to the corpus
MaxCorpus == 2

\* a text that matches each of the twelve common patterns
TwelvePhrases ==
  "According to research it is known in this context it plays a key role "
  \o "in recent years it has become more it is said that first, in summary "
  \o "on the other hand as a result due to this"

PlagDocs == {"It is.", TwelvePhrases}

PlagSources == {"A", "B"}

PlagTexts ==
  PlagDocs \cup {"", "  ", "a b c?",
                 "The cat sat on the mat. The cat sat on the mat today.",
                 "According to research, a key role."}

InitPlag ==
  /\ op = "start"
  /\ text = ""
  /\ other = ""
  /\ res = NoResult
  /\ corpus = <<>>
  /\ corpus_sources = <<>>

\* PlagiarismDetector.add_to_corpus(d, s)
AddToCorpus ==
  /\ Len(corpus) < MaxCorpus
  /\ \E d \in PlagDocs, s \in PlagSources :
       /\ corpus' = Append(corpus, d)
       /\ corpus_sources' = Append(corpus_sources, s)
  /\ op' = "add_to_corpus"
  /\ text' = ""
  /\ res' = NoResult
  /\ UNCHANGED other

\* PlagiarismDetector.analyze(t)
PlagAnalyze ==
  /\ \E t \in PlagTexts :
       /\ text' = t
       /\ res' = P_analyze(t, corpus, corpus_sources)
  /\ op' = "analyze"
  /\ UNCHANGED <<other, corpus, corpus_sources>>

NextPlag == AddToCorpus \/ PlagAnalyze

SpecPlag == InitPlag /\ [][NextPlag]_vars

\* C2: the score PlagiarismDetector.analyze returns lies in [0, 100], for
\* every text and every corpus built by add_to_corpus, the empty one included
C2_PlagScoreInRange ==
  op = "analyze" => (res.score >= 0 /\ res.score <= 100000)

\* the score of a text that the cap brings down to 100, with a corpus
C2_Witness ==
  /\ op = "analyze"
  /\ corpus # <<>>
  /\ NonBlank(text)
  /\ res.score = 100000
  /\ (res.corpus_score * 7) \div 10 + Len(res.common_phrases) * 5000 > 100000

\* the corpus entry i is flagged for the analyzed text with similarity >= 0.99
FlaggedAsIdentical(i) ==
  \E m \in 1..Len(res.flagged_matches) :
    /\ res.flagged_matches[m].match_index = i - 1
    /\ res.flagged_matches[m].source = corpus_sources[i]
    /\ res.flagged_matches[m].similarity >= 990

\* C9 as stated: every corpus document identical to a non-empty query is
\* flagged for its source with similarity >= 0.99, for every such query
C9_IdenticalFlagged ==
  (op = "analyze" /\ NonBlank(text)) =>
    \A i \in 1..Len(corpus) : corpus[i] = text => FlaggedAsIdentical(i)

\* C9 amended: every corpus document identical to the query is flagged for its
\* source with similarity >= 0.99 when the query has a token the vectorizer
\* keeps: a word of two or more word characters that is not a stop word
C9_IdenticalFlaggedWithTokens ==
  (op = "analyze" /\ P_tokenize(text) # <<>>) =>
    \A i \in 1..Len(corpus) : corpus[i] = text => FlaggedAsIdentical(i)

\* a query with tokens analyzed against a corpus that holds it, as the second
\* document after a different one
C9_Witness ==
  /\ op = "analyze"
  /\ P_tokenize(text) # <<>>
  /\ Len(corpus) = 2
  /\ corpus[2] = text
  /\ corpus[1] # text
  /\ FlaggedAsIdentical(2)

(***************************************************************************)
(* Repeated calls of AIDetector.analyze on one detector                    *)
(***************************************************************************)

\* the largest number of calls of analyze on one detector
MaxCalls == 3

\* a call whose score grows with the number of the calls served before
AI_call_counting(log, t) ==
  Append(log, [text |-> t,
               result |-> [AI_analyze(t) EXCEPT !.score = @ + Len(log)]])

\* the call analyze(t) on a detector that has served the calls of log: analyze
\* reads self.ai_indicators and t, and assigns no attribute of the detector
AI_call(log, t) == Append(log, [text |-> t, result |-> AI_analyze(t)])

CallTexts ==
  {"", "Hi.",
   "Furthermore, it is important to note that this plays a crucial role.",
   "One two three four. Five six seven eight nine ten. Go now my friend!",
   "thus hence\n"}

InitAICalls ==
  /\ op = "start"
  /\ text = ""
  /\ other = ""
  /\ res = <<>>
  /\ corpus = <<>>
  /\ corpus_sources = <<>>

\* one more call of analyze; res is the log of the calls and their results
AIAnalyzeCall ==
  /\ Len(res) < MaxCalls
  /\ \E t \in CallTexts :
       /\ text' = t
       /\ res' = AI_call(res, t)
  /\ op' = "ai_call"
  /\ UNCHANGED <<other, corpus, corpus_sources>>

NextAICalls == AIAnalyzeCall

SpecAICalls == InitAICalls /\ [][NextAICalls]_vars

SentencePool ==
  {"One two three four five six seven eight nine ten.",
   "We go on and on and on and on now!",
   "Is it so that a b c d e f?",
   "One two three four five six seven eight nine.",
   "One two three four five six seven eight nine ten eleven.",
   "Hi."}

ThreeSentenceTexts ==
  {a \o " " \o b \o " " \o c : a \in SentencePool, b \in SentencePool, c \in SentencePool}

InitUniform ==
  /\ op = "start"
  /\ text \in ThreeSentenceTexts
  /\ other = ""
  /\ res = NoResult
  /\ corpus = <<>>
  /\ corpus_sources = <<>>

SpecUniform == InitUniform /\ [][NextAI]_vars

\* t is made of three sentences of exactly ten words each
ThreeTenWordSentences(t) ==
  /\ Len(SplitSentences(t)) = 3
  /\ \A i \in 1..3 : Len(Split(SplitSentences(t)[i])) = 10

\* C12: a text of 3 sentences of exactly 10 words each has sentence_uniformity
\* 100 and the 'Uniform sentence structure' indicator
C12_TenWordSentencesUniform ==
  (op = "ai_analyze" /\ ThreeTenWordSentences(text)) =>
    /\ res.statistical_features.sentence_uniformity = 100000
    /\ \E i \in 1..Len(res.indicators) :
         res.indicators[i].type = "Uniform sentence structure"

\* three ten-word sentences of different lengths in characters, analyzed
C12_Witness ==
  /\ op = "ai_analyze"
  /\ ThreeTenWordSentences(text)
  /\ \E i, j \in 1..3 : Len(SplitSentences(text)[i]) # Len(SplitSentences(text)[j])
  /\ res.statistical_features.sentence_uniformity = 100000

(***************************************************************************)
(* Exceptions: which Python exception, if any, leaves each entry point     *)
(***************************************************************************)

NoError == "none"

\* statements run in order: the first exception raised propagates
FirstError(es) ==
  IF \A k \in 1..Len(es) : es[k] = NoError
  THEN NoError
  ELSE es[SetMin({k \in 1..Len(es) : es[k] # NoError})]

\* x / den
ZeroDivision(den) == IF den = 0 THEN "ZeroDivisionError" ELSE NoError

\* math.log(x), math.log2(x)
MathDomain(x) == IF x <= 0 THEN "ValueError" ELSE NoError

\* seq[i] on a list of n items, for i >= 0
IndexCheck(n, i) == IF i < n THEN NoError ELSE "IndexError"

\* random.choice(seq) on a list of n items
ChoiceCheck(n) == IndexCheck(n, 0)

\* an exception that no handler catches
PropagateError(e) == e

\* try: ... except ValueError: the handler returns a default value
ExceptValueError(e) == IF e = "ValueError" THEN NoError ELSE e

\* AIDetector._analyze_transitions and _analyze_hedging: count / len(words)
AI_analyze_transitions_error(t) ==
  LET words == Split(Lower(t))
  IN  IF words = <<>> THEN NoError ELSE ZeroDivision(Len(words))

\* AIDetector._analyze_fillers: count / word_count
AI_analyze_fillers_error(t) ==
  LET word_count == Len(Split(t))
  IN  IF word_count = 0 THEN NoError ELSE ZeroDivision(word_count)

\* AIDetector._analyze_sentence_uniformity: std_dev / mean_length
AI_analyze_sentence_uniformity_error(sentences) ==
  LET lengths == [k \in 1..Len(sentences) |-> Len(Split(sentences[k]))]
  IN  IF Len(sentences) < 3 THEN NoError
      ELSE IF SumSeq(lengths) = 0 THEN NoError
      ELSE ZeroDivision(SumSeq(lengths))

\* AIDetector._estimate_perplexity: count / total, log2(count / total),
\* log2(unique); entropy / max_entropy runs only if max_entropy > 0
AI_estimate_perplexity_error(t) ==
  LET words  == Split(Lower(t))
      total  == Len(words)
      unique == Cardinality(Range(words))
      count(w) == Cardinality({i \in 1..total : words[i] = w})
  IN  IF total < 10 THEN NoError
      ELSE FirstError(<<ZeroDivision(total)>>
                      \o [i \in 1..total |-> MathDomain(count(words[i]))]
                      \o <<IF unique > 1 THEN MathDomain(unique) ELSE NoError>>)

\* AIDetector._calculate_burstiness: log(sentence_length + 1),
\* sqrt(variance) / mean
AI_calculate_burstiness_error(sentences) ==
  LET counts == [k \in 1..Len(sentences) |-> Len(Split(sentences[k]))]
      withWords == SelectSeq(counts, LAMBDA n : n > 0)
  IN  IF Len(sentences) < 3 THEN NoError
      ELSE IF withWords = <<>> THEN NoError
      ELSE FirstError([k \in 1..Len(withWords) |-> MathDomain(withWords[k] + 1)]
                      \o <<ZeroDivision(SumSeq(withWords))>>)

\* AIDetector._analyze_vocabulary_richness: len(unique_words) / len(words)
AI_analyze_vocabulary_richness_error(t) ==
  LET words == SelectSeq(WordRuns(Lower(t)), IsAlphaLower)
  IN  IF words = <<>> THEN NoError ELSE ZeroDivision(Len(words))

\* AIDetector.analyze
AI_analyze_error(t) ==
  LET sentences == AI_get_sentences(t)
  IN  IF ~NonBlank(t) THEN NoError
      ELSE FirstError(<<AI_analyze_transitions_error(t),
                        AI_analyze_fillers_error(t),
                        AI_analyze_transitions_error(t),
                        AI_analyze_sentence_uniformity_error(sentences),
                        AI_estimate_perplexity_error(t),
                        AI_calculate_burstiness_error(sentences),
                        AI_analyze_vocabulary_richness_error(t)>>)

\* TfidfVectorizer.fit_transform raises ValueError on an empty vocabulary
P_fit_transform_error(docs) ==
  IF P_empty_vocabulary(P_terms(docs)) THEN "ValueError" ELSE NoError

\* PlagiarismDetector._check_against_corpus
P_check_against_corpus_error(t, docs) ==
  ExceptValueError(P_fit_transform_error(docs \o <<t>>))

\* PlagiarismDetector._calculate_internal_similarity
P_calculate_internal_similarity_error(sentences) ==
  IF Len(sentences) < 2 THEN NoError
  ELSE ExceptValueError(P_fit_transform_error(sentences))

\* PlagiarismDetector.analyze
P_analyze_error(t, docs) ==
  IF ~NonBlank(t) THEN NoError
  ELSE FirstError(<<IF docs # <<>>
                    THEN P_check_against_corpus_error(P_preprocess_text(t), docs)
                    ELSE NoError,
                    P_calculate_internal_similarity_error(P_get_sentences(t))>>)

\* random.choice(alternatives), whichever transition word was found
H_transition_choice_error ==
  FirstError([k \in 1..Len(transition_alternatives) |->
                ChoiceCheck(Len(transition_alternatives[k].alternatives))])

\* random.choice(alternatives), whichever filler phrase was found
H_filler_choice_error ==
  FirstError([k \in 1..Len(filler_phrase_suggestions) |->
                ChoiceCheck(Len(filler_phrase_suggestions[k].alternatives))])

\* Humanizer._analyze_sentence: words[0] is read only `if words`
H_analyze_sentence_error(sentence) ==
  LET words == Split(Lower(sentence))
  IN  IF words = <<>> THEN NoError
      ELSE FirstError(<<IndexCheck(Len(words), 0), H_transition_choice_error>>)

\* Humanizer._generate_examples: _humanize_sentence, then _explain_changes,
\* which reads orig_words[0] and new_words[0] only when both lists have items
H_generate_examples_error(sentences) ==
  FirstError([k \in 1..Min(3, Len(sentences)) |->
                LET words == Split(sentences[k])
                IN  FirstError(<<IF words = <<>> THEN NoError
                                 ELSE FirstError(<<IndexCheck(Len(words), 0),
                                                   H_transition_choice_error>>),
                                 H_filler_choice_error>>)])

\* step 5 of the pipeline: words.index(sw) returns an index or raises
\* ValueError when sw is absent, inside try ... except ValueError: continue
H_split_error ==
  FirstError(<<ExceptValueError(NoError), ExceptValueError("ValueError")>>)

\* Humanizer._generate_full_humanized_text: the random.choice calls of steps
\* 2, 3, 4 and 6 and the list search of step 5; sentence[0] and
\* second_part[0] are read from non-empty strings only
H_generate_full_humanized_text_error ==
  FirstError(<<H_transition_choice_error,
               H_filler_choice_error,
               ChoiceCheck(Len(human_starters)),
               H_split_error,
               ChoiceCheck(Len(questions))>>)

\* Humanizer.analyze_and_suggest
H_analyze_and_suggest_error(t) ==
  LET sentences == H_get_sentences(t)
  IN  IF ~NonBlank(t) THEN NoError
      ELSE FirstError(<<FirstError([k \in 1..Min(15, Len(sentences)) |->
                                      H_analyze_sentence_error(sentences[k])]),
                        H_generate_examples_error(SubSeq(sentences, 1, Min(5, Len(sentences)))),
                        H_generate_full_humanized_text_error>>)

\* Humanizer._create_personal_rewrite: starters
starters ==
  <<"I find it interesting that", "What strikes me here is that",
    "In my view,", "I've noticed that">>

\* Humanizer._add_contrast_example: contrasts
contrasts ==
  <<"However, it's worth considering that", "That said,",
    "On the other hand,", "Yet we should also note that">>

\* Humanizer._find_sentence_with_filler: filler_patterns
filler_patterns ==
  <<"it is important to", "it should be noted", "in order to",
    "due to the fact", "it is worth", "at this point in time",
    "for the purpose of", "in the event that">>

HasFillerPattern(sentence) ==
  ~(\A k \in 1..Len(filler_patterns) : ~Contains(Lower(sentence), filler_patterns[k]))

\* Humanizer._find_sentence_with_filler
H_find_sentence_with_filler(sentences) ==
  LET hits == SelectSeq(sentences, HasFillerPattern)
  IN  IF hits # <<>> THEN hits[1]
      ELSE IF sentences # <<>> THEN sentences[1] ELSE ""

\* Humanizer._remove_fillers_from_sentence: alternatives[0] of every filler
\* phrase the sentence contains
H_remove_fillers_from_sentence_error(sentence) ==
  FirstError([k \in 1..Len(filler_phrase_suggestions) |->
                IndexCheck(Len(filler_phrase_suggestions[k].alternatives), 0)])

\* Humanizer.generate_writing_exercises
H_generate_writing_exercises_error(t) ==
  LET sentences == H_get_sentences(t)
      n == Len(sentences)
      filler_sentence == H_find_sentence_with_filler(sentences)
  IN  FirstError(<<
        IF n > 0
        THEN FirstError(<<IndexCheck(n, 0), ChoiceCheck(Len(starters))>>)
        ELSE NoError,
        IF filler_sentence # ""
        THEN H_remove_fillers_from_sentence_error(filler_sentence)
        ELSE NoError,
        IF ~Contains(t, "?") /\ n > 3
        THEN IndexCheck(n, IF n > 2 THEN 2 ELSE 0)
        ELSE NoError,
        IF n >= 2
        THEN FirstError(<<IndexCheck(n, 0), ChoiceCheck(Len(contrasts))>>)
        ELSE NoError>>)

\* Humanizer.generate_sentence_breakdown: filler_phrase_suggestions[filler][0]
\* for every filler phrase a sentence contains
H_generate_sentence_breakdown_error(t) ==
  LET sentences == H_get_sentences(t)
  IN  FirstError([k \in 1..Min(15, Len(sentences)) |->
        FirstError([f \in 1..Len(filler_phrase_suggestions) |->
          IF Contains(Lower(sentences[k]), filler_phrase_suggestions[f].filler)
          THEN IndexCheck(Len(filler_phrase_suggestions[f].alternatives), 0)
          ELSE NoError])])

\* Humanizer.get_comparison_data: each list is read at i only `if i < len(...)`
H_get_comparison_data_error(original_text, humanized_text) ==
  LET no == Len(H_get_sentences(original_text))
      nh == Len(H_get_sentences(humanized_text))
  IN  FirstError([i \in 1..Min(Max(no, nh), MaxComparisons) |->
        FirstError(<<IF i - 1 < no THEN IndexCheck(no, i - 1) ELSE NoError,
                     IF i - 1 < nh THEN IndexCheck(nh, i - 1) ELSE NoError>>)])

(***************************************************************************)
(* The entry points of the core, called with any text on any corpus        *)
(***************************************************************************)

StopWordSentences == "It is. It was."

EntryTexts ==
  {"", "  \n", "Hi.  Is it so?", StopWordSentences, LongBecause,
   "Furthermore, it is important to note that this plays a crucial role.",
   "The cat sat on the mat. The dog ran to the park. We like them all a lot. Nobody knows it all."}

Outcome(entry, e) == [entry |-> entry, error |-> e]

EntryPoints ==
  {"AIDetector.analyze", "PlagiarismDetector.analyze",
   "Humanizer.analyze_and_suggest", "Humanizer.generate_writing_exercises",
   "Humanizer.generate_sentence_breakdown", "Humanizer.get_comparison_data"}

\* add_to_corpus(text), the source label left to its default
EntryAddToCorpus ==
  /\ Len(corpus) < MaxCorpus
  /\ \E d \in PlagDocs :
       /\ corpus' = Append(corpus, d)
       /\ corpus_sources' = Append(corpus_sources, "Unknown")
  /\ op' = "add_to_corpus"
  /\ text' = ""
  /\ other' = ""
  /\ res' = NoResult

EntryAIAnalyze ==
  /\ \E t \in EntryTexts :
       /\ text' = t
       /\ res' = Outcome("AIDetector.analyze", AI_analyze_error(t))
  /\ op' = "AIDetector.analyze"
  /\ other' = ""
  /\ UNCHANGED <<corpus, corpus_sources>>

EntryPlagAnalyze ==
  /\ \E t \in EntryTexts :
       /\ text' = t
       /\ res' = Outcome("PlagiarismDetector.analyze", P_analyze_error(t, corpus))
  /\ op' = "PlagiarismDetector.analyze"
  /\ other' = ""
  /\ UNCHANGED <<corpus, corpus_sources>>

EntryAnalyzeAndSuggest ==
  /\ \E t \in EntryTexts :
       /\ text' = t
       /\ res' = Outcome("Humanizer.analyze_and_suggest",
                         H_analyze_and_suggest_error(t))
  /\ op' = "Humanizer.analyze_and_suggest"
  /\ other' = ""
  /\ UNCHANGED <<corpus, corpus_sources>>

EntryWritingExercises ==
  /\ \E t \in EntryTexts :
       /\ text' = t
       /\ res' = Outcome("Humanizer.generate_writing_exercises",
                         H_generate_writing_exercises_error(t))
  /\ op' = "Humanizer.generate_writing_exercises"
  /\ other' = ""
  /\ UNCHANGED <<corpus, corpus_sources>>

EntrySentenceBreakdown ==
  /\ \E t \in EntryTexts :
       /\ text' = t
       /\ res' = Outcome("Humanizer.generate_sentence_breakdown",
                         H_generate_sentence_breakdown_error(t))
  /\ op' = "Humanizer.generate_sentence_breakdown"
  /\ other' = ""
  /\ UNCHANGED <<corpus, corpus_sources>>

EntryComparisonData ==
  /\ \E t \in EntryTexts, h \in {"", StopWordSentences, LongBecause} :
       /\ text' = t
       /\ other' = h
       /\ res' = Outcome("Humanizer.get_comparison_data",
                         H_get_comparison_data_error(t, h))
  /\ op' = "Humanizer.get_comparison_data"
  /\ UNCHANGED <<corpus, corpus_sources>>

NextEntry ==
  \/ EntryAddToCorpus
  \/ EntryAIAnalyze
  \/ EntryPlagAnalyze
  \/ EntryAnalyzeAndSuggest
  \/ EntryWritingExercises
  \/ EntrySentenceBreakdown
  \/ EntryComparisonData

SpecEntry == InitPlag /\ [][NextEntry]_vars

\* C13: whatever the text (empty, blank, without a sentence of more than 10
\* characters, made of stop words only, or ordinary) and whatever the corpus,
\* each of the six entry points returns: no exception leaves it.
C13_NoEntryPointRaises ==
  op \in EntryPoints => res.error = NoError

\* the vectorizer raised ValueError on an empty vocabulary while a text of
\* stop words was compared with a corpus, and analyze returned all the same
C13_Witness ==
  /\ op = "PlagiarismDetector.analyze"
  /\ text = StopWordSentences
  /\ corpus # <<>>
  /\ P_fit_transform_error(corpus \o <<P_preprocess_text(text)>>) = "ValueError"
  /\ res.error = NoError

(***************************************************************************)
(* Texts with too little signal for some feature                           *)
(***************************************************************************)

SignalPool ==
  {"12 34.", "abc1 2b!", "Hi.",
   "One two three four five six seven eight nine ten.",
   "We go on and on and on and on now!",
   "1 22 333 4444 55555 666666 7777777."}

SignalTexts ==
  {a \o " " \o b \o " " \o c : a \in SignalPool, b \in SignalPool, c \in SignalPool}

InitSignal ==
  /\ op = "start"
  /\ text \in SignalTexts
  /\ other = ""
  /\ res = NoResult
  /\ corpus = <<>>
  /\ corpus_sources = <<>>

SpecSignal == InitSignal /\ [][NextAI]_vars

\* t has no word made of letters only
NoAlphabeticWord(t) ==
  \A w \in Range(WordRuns(t)) :
    ~(\A i \in 1..Len(w) : IsLowerAlpha(LowerChar(Char(w, i))))

\* C14: with fewer than 3 retained sentences sentence_uniformity and
\* burstiness are 50, with fewer than 10 whitespace-separated words
\* perplexity_estimate is 50, and without any alphabetic word
\* vocabulary_richness is 0.5.
C14_NeutralFeatureValues ==
  (op = "ai_analyze" /\ NonBlank(text)) =>
    LET features == res.statistical_features
    IN  /\ Len(AI_get_sentences(text)) < 3 =>
             /\ features.sentence_uniformity = 50000
             /\ features.burstiness = 50000
        /\ Len(Split(text)) < 10 => features.perplexity_estimate = 50000
        /\ NoAlphabeticWord(text) => features.vocabulary_richness = 500

\* a text of 6 words, none of them alphabetic, with no sentence of more than
\* 10 characters: all four features have their neutral value
C14_Witness ==
  /\ op = "ai_analyze"
  /\ text = "12 34. abc1 2b! 12 34."
  /\ AI_get_sentences(text) = <<>>
  /\ Len(Split(text)) = 6
  /\ NoAlphabeticWord(text)
  /\ res.statistical_features.sentence_uniformity = 50000
  /\ res.statistical_features.burstiness = 50000
  /\ res.statistical_features.perplexity_estimate = 50000
  /\ res.statistical_features.vocabulary_richness = 500

(***************************************************************************)
(* The rewrite pipeline on texts with filler phrases                       *)
(***************************************************************************)

FillerPool ==
  {"It is important to note that cats sleep.",
   "In other words it goes without saying.",
   "As mentioned earlier, dogs run.",
   "It is worth mentioning in this context.",
   "The cat sat on the mat.",
   "Hi."}

FillerTexts == {a \o " " \o b : a \in FillerPool, b \in FillerPool}

InitFiller ==
  /\ op = "start"
  /\ text \in FillerTexts
  /\ other = ""
  /\ res = NoResult
  /\ corpus = <<>>
  /\ corpus_sources = <<>>

SpecFiller == InitFiller /\ [][NextHum]_vars

\* the entries of filler_phrase_suggestions whose phrase occurs in t
FillersIn(t) ==
  {k \in 1..Len(filler_phrase_suggestions) :
     Contains(Lower(t), filler_phrase_suggestions[k].filler)}

\* C15: the filler pass substitutes at most one filler phrase per call: the
\* change list holds at most one filler_removal record, and every filler
\* phrase of the text but the first of the table stays in the text.
C15_OneFillerSubstitution ==
  op = "humanize" =>
    /\ CountType(res.changes, "filler_removal") <= 1
    /\ \A k \in FillersIn(text) :
         k # SetMin(FillersIn(text)) =>
           Contains(Lower(res.humanized_text), filler_phrase_suggestions[k].filler)

(***************************************************************************)
(* The rewrite pipeline on texts whose sentences start with transitions    *)
(***************************************************************************)

TransitionPool ==
  {"Subsequently, we went home again.",
   "Accordingly, we went home again.",
   "Furthermore, cats sleep a lot.",
   "However, dogs run all day.",
   "Thus we stay here now.",
   "The cat sat on the mat."}

TransitionTexts == {a \o " " \o b : a \in TransitionPool, b \in TransitionPool}

InitTransition ==
  /\ op = "start"
  /\ text \in TransitionTexts
  /\ other = ""
  /\ res = NoResult
  /\ corpus = <<>>
  /\ corpus_sources = <<>>

SpecTransition == InitTransition /\ [][NextHum]_vars

\* C16: every transition word of the table that the input has at the start of
\* the text or after sentence-ending punctuation, followed by whitespace or a
\* comma, is replaced by one of its own alternatives, with a
\* transition_replacement record naming it.
C16_InputTransitionsReplaced ==
  op = "humanize" =>
    \A k \in 1..Len(transition_alternatives) :
      TransitionMatches(Lower(text), transition_alternatives[k].formal) # {} =>
        \E i \in 1..Len(res.changes) :
          /\ res.changes[i].type = "transition_replacement"
          /\ res.changes[i].original = transition_alternatives[k].formal
          /\ res.changes[i].replacement \in Range(transition_alternatives[k].alternatives)

(***************************************************************************)
(* Texts whose densities reach the severity thresholds                     *)
(***************************************************************************)

MaxPadding == 25

SeverityHeads == {"thus", "in other words", "thus hence", "it is"}

\* four sentences of 9, 9, 11 and 11 words: the coefficient of variation of
\* their lengths is 10 %
UniformityEighty ==
  "One two three four five six seven eight nine. "
    \o "We go on and on and on and on! "
    \o "One two three four five six seven eight nine ten eleven. "
    \o "Is it so that a b c d e f g?"

SeverityTexts ==
  {UniformityEighty}
    \cup {IF n = 0 THEN h ELSE h \o " " \o Repeat("a", n) :
            h \in SeverityHeads, n \in 0..MaxPadding}

InitSeverity ==
  /\ op = "start"
  /\ text \in SeverityTexts
  /\ other = ""
  /\ res = NoResult
  /\ corpus = <<>>
  /\ corpus_sources = <<>>

SpecSeverity == InitSeverity /\ [][NextAI]_vars

\* the severity the stated thresholds give an indicator
StatedSeverity(type, f) ==
  CASE type = "High transition word density" ->
         IF f.transition_density > 5000 THEN "high" ELSE "medium"
    [] type = "Filler phrase usage" ->
         IF f.filler_density > 4000 THEN "high" ELSE "medium"
    [] type = "Uniform sentence structure" ->
         IF f.sentence_uniformity > 80000 THEN "high" ELSE "medium"
    [] type = "Low burstiness" ->
         IF f.burstiness < 20000 THEN "high" ELSE "medium"
    [] OTHER -> "low"

\* C17: each indicator's severity is the one the stated thresholds give,
\* boundary values included: high only above 5 (transitions), above 4
\* (fillers), above 80 (uniformity) and below 20 (burstiness), else medium.
C17_SeverityBoundaries ==
  (op = "ai_analyze" /\ NonBlank(text)) =>
    \A i \in 1..Len(res.indicators) :
      res.indicators[i].severity
        = StatedSeverity(res.indicators[i].type, res.statistical_features)

\* the number of patterns of common_patterns that match t
MatchedPatterns(t) ==
  Cardinality({k \in 1..Len(common_patterns) : PatternCount(k, Lower(t)) > 0})

\* C20: the score is min(100, 0.7 * corpus_score + 5 * p) with a corpus and
\* min(100, 10 * p + 0.3 * internal_similarity) without one, p being the
\* number of distinct patterns that matched; with a corpus the internal
\* similarity does not enter the score.
C20_FinalScoreFormula ==
  (op = "analyze" /\ NonBlank(text)) =>
    LET p == MatchedPatterns(text)
    IN  /\ Len(res.common_phrases) = p
        /\ IF corpus # <<>>
           THEN res.score = Min(100000, (res.corpus_score * 7) \div 10 + 5000 * p)
           ELSE res.score = Min(100000, 10000 * p + (res.internal_similarity * 3) \div 10)

\* a text with one matched pattern, compared with a corpus that shares terms
\* with it: the score is 0.7 * corpus_score + 5, below the cap
C20_Witness ==
  /\ op = "analyze"
  /\ corpus # <<>>
  /\ MatchedPatterns(text) = 1
  /\ res.corpus_score > 0
  /\ res.score = (res.corpus_score * 7) \div 10 + 5000
  /\ res.score < 100000

(***************************************************************************)
(* The corpus over add_to_corpus and analyze calls.  In this specification *)
(* `other` is a history variable: the list of the add_to_corpus calls made *)
(* so far, each with its text and its source label.                        *)
(***************************************************************************)

\* self.corpus after a statement that appends text to it in place
P_corpus_extended(docs, t) == Append(docs, t)

\* self.corpus after _check_against_corpus: all_texts = self.corpus + [text]
\* builds a new list and leaves self.corpus as it was
P_corpus_after_check(docs, t) == docs

CorpusTexts ==
  {"", "a b c?", "It is.", "According to research, a key role.",
   "The cat sat on the mat. The cat sat on the mat today."}

InitCorpus ==
  /\ op = "start"
  /\ text = ""
  /\ other = <<>>
  /\ res = NoResult
  /\ corpus = <<>>
  /\ corpus_sources = <<>>

CorpusAdd ==
  /\ Len(corpus) < MaxCorpus
  /\ \E d \in PlagDocs, s \in PlagSources :
       /\ corpus' = Append(corpus, d)
       /\ corpus_sources' = Append(corpus_sources, s)
       /\ other' = Append(other, [text |-> d, source |-> s])
  /\ op' = "add_to_corpus"
  /\ text' = ""
  /\ res' = NoResult

CorpusAnalyze ==
  /\ \E t \in CorpusTexts :
       /\ text' = t
       /\ res' = P_analyze(t, corpus, corpus_sources)
       /\ corpus' = IF NonBlank(t) /\ corpus # <<>>
                    THEN P_corpus_after_check(corpus, P_preprocess_text(t))
                    ELSE corpus
  /\ op' = "analyze"
  /\ UNCHANGED <<other, corpus_sources>>

NextCorpus == CorpusAdd \/ CorpusAnalyze

SpecCorpus == InitCorpus /\ [][NextCorpus]_vars

\* C21: corpus and corpus_sources have the length of the list of
\* add_to_corpus calls so far, and entry i holds the text and the source label
\* of the i-th call, whatever analyze calls came in between.
C21_CorpusAppendOnly ==
  /\ Len(corpus) = Len(other)
  /\ Len(corpus_sources) = Len(other)
  /\ \A i \in 1..Len(other) :
       /\ corpus[i] = other[i].text
       /\ corpus_sources[i] = other[i].source

\* two different documents were added and a text with a token was analyzed
\* against them
C21_Witness ==
  /\ op = "analyze"
  /\ Len(other) = 2
  /\ other[1].text # other[2].text
  /\ other[1].source # other[2].source
  /\ NonBlank(text)
  /\ res.corpus_score > 0
  /\ corpus = <<other[1].text, other[2].text>>

(***************************************************************************)
(* The sentence lists of the three components for one submitted text       *)
(***************************************************************************)

\* the sentence lists that AIDetector.analyze, the rewrite pipeline and
\* PlagiarismDetector.analyze (for _calculate_internal_similarity) work on
SegmentText ==
  /\ op = "start"
  /\ op' = "segment"
  /\ res' = [ai         |-> AI_get_sentences(text),
             humanizer  |-> H_get_sentences(text),
             plagiarism |-> P_get_sentences(text)]
  /\ UNCHANGED <<text, other, corpus, corpus_sources>>

NextSegment == SegmentText

SpecSegment == InitAI /\ [][NextSegment]_vars

\* C22: the three components work on the same sentence list, made of trimmed
\* candidates of more than 10 characters.
C22_SameSegmentation ==
  op = "segment" =>
    /\ res.ai = res.humanizer
    /\ res.humanizer = res.plagiarism
    /\ \A c \in {"ai", "humanizer", "plagiarism"} :
         \A i \in 1..Len(res[c]) : Len(res[c][i]) > MinSentenceChars

(***************************************************************************)
(* views._update_progress after each analyze_text request of one user,     *)
(* the requests served one after the other.  In this specification `res`   *)
(* is the database: the user's AnalysisResult rows in the order of          *)
(* analyzed_at (ai_score of each) and the user's LearningProgress row.     *)
(* Averages are kept in sixtieths, so that sums over 3, 4 and 5 rows        *)
(* divide exactly.                                                          *)
(***************************************************************************)

MaxAnalyses == 9

\* ai_result['score'] of the submitted texts
TrendScores == {20, 80}

\* list(analyses.order_by('-analyzed_at')[a:b]): the rows from the a-th to the
\* b-th most recent (a counted from 0, b excluded), most recent first
V_recent_slice(analyses, a, b) ==
  LET n == Len(analyses)
  IN  [k \in 1..Max(0, Min(b, n) - a) |-> analyses[n - a - k + 1]]

\* sum(a.ai_score for a in rows) / len(rows), in sixtieths
V_average(rows) == (SumSeq(rows) * 60) \div Len(rows)

\* progress.improvement_trend = older_avg - recent_avg
V_trend(recent, older) == V_average(older) - V_average(recent)

\* _update_progress(user) on the rows `analyses` and the LearningProgress row
\* `progress`
V_update_progress(analyses, progress) ==
  LET recent == V_recent_slice(analyses, 0, 5)
      older  == V_recent_slice(analyses, 5, 10)
  IN  [total_documents   |-> Len(analyses),
       average_ai_score  |-> IF analyses # <<>> THEN V_average(analyses)
                             ELSE progress.average_ai_score,
       improvement_trend |-> IF analyses # <<>> /\ Len(recent) >= 3 /\ Len(older) >= 3
                             THEN V_trend(recent, older)
                             ELSE progress.improvement_trend]

\* LearningProgress defaults
V_new_progress == [total_documents |-> 0, average_ai_score |-> 0, improvement_trend |-> 0]

InitTrend ==
  /\ op = "start"
  /\ text = ""
  /\ other = ""
  /\ res = [analyses |-> <<>>, progress |-> V_new_progress]
  /\ corpus = <<>>
  /\ corpus_sources = <<>>

\* analyze_text for a text that is not blank and whose AI score is score
AnalyzeTextRequest ==
  /\ Len(res.analyses) < MaxAnalyses
  /\ \E score \in TrendScores :
       LET analyses == Append(res.analyses, score)
       IN  res' = [analyses |-> analyses,
                   progress |-> V_update_progress(analyses, res.progress)]
  /\ op' = "analyze_text"
  /\ UNCHANGED <<text, other, corpus, corpus_sources>>

NextTrend == AnalyzeTextRequest

SpecTrend == InitTrend /\ [][NextTrend]_vars

\* C23: after a request the stored trend is the average AI score of the 5
\* most recent analyses minus the average of the 5 before them when both
\* windows hold at least 3 analyses, and the value stored before otherwise.
C23_TrendRecentMinusOlder ==
  [][LET recent == V_recent_slice(res'.analyses, 0, 5)
         older  == V_recent_slice(res'.analyses, 5, 10)
     IN  IF Len(recent) >= 3 /\ Len(older) >= 3
         THEN res'.progress.improvement_trend
                = (SumSeq(recent) * 60) \div Len(recent)
                    - (SumSeq(older) * 60) \div Len(older)
         ELSE res'.progress.improvement_trend = res.progress.improvement_trend]_vars

(***************************************************************************)
(* Humanizer.generate_sentence_breakdown: the personal-voice points of     *)
(* each sentence.                                                          *)
(***************************************************************************)

MaxBreakdownSentences == 15

PersonalVoicePoints == 15

personal_pronouns == <<"i ", "i'", "my ", "me ", "we ", "our ", "us ">>

\* the pronouns the list stands for, as words
pronoun_words == {"i", "my", "me", "we", "our", "us"}

\* `for pronoun in personal_pronouns: if pronoun in sentence_lower: ... break`:
\* the points added to analysis['score'] for personal pronouns
H_personal_voice(sentence) ==
  IF \E k \in 1..Len(personal_pronouns) : Contains(Lower(sentence), personal_pronouns[k])
  THEN PersonalVoicePoints ELSE 0

\* generate_sentence_breakdown(t): sentence and personal-voice points of each
\* entry of the breakdown
H_generate_sentence_breakdown(t) ==
  LET sentences == H_get_sentences(t)
  IN  [k \in 1..Min(MaxBreakdownSentences, Len(sentences)) |->
        [index |-> k, sentence |-> sentences[k],
         personal_voice |-> H_personal_voice(sentences[k])]]

BreakdownFragments ==
  {"We like my cats a lot.",
   "Cats need some time thus far.",
   "I'm not so sure of it!",
   "Tell me what our cats do.",
   "The cats sat on mats.",
   "Hi there cats and dogs.",
   "Is it us or the dogs?",
   "My, my.",
   "Come to me. Telling us ",
   "The virus spreads again.",
   "Nobody told me"}

BreakdownTexts == Concats(BreakdownFragments, MaxFrags)

InitBreakdown ==
  /\ op = "start"
  /\ text \in BreakdownTexts
  /\ other = ""
  /\ res = NoResult
  /\ corpus = <<>>
  /\ corpus_sources = <<>>

GenerateSentenceBreakdown ==
  /\ op = "start"
  /\ op' = "breakdown"
  /\ res' = H_generate_sentence_breakdown(text)
  /\ UNCHANGED <<text, other, corpus, corpus_sources>>

NextBreakdown == GenerateSentenceBreakdown

SpecBreakdown == InitBreakdown /\ [][NextBreakdown]_vars

\* C24: a sentence of the breakdown gets the 15 personal-voice points at most
\* once, and only when one of I, my, me, we, our, us is a word of the
\* sentence; a sentence without such a word gets none.
C24_PersonalVoiceOnlyForPronounWords ==
  op = "breakdown" =>
    \A k \in 1..Len(res) :
      /\ res[k].personal_voice \in {0, PersonalVoicePoints}
      /\ res[k].personal_voice > 0 =>
            \E j \in 1..Len(WordRuns(Lower(res[k].sentence))) :
              WordRuns(Lower(res[k].sentence))[j] \in pronoun_words

(***************************************************************************)
(* Step 4 of _generate_full_humanized_text: sentence-start variety.        *)
(***************************************************************************)

VarietyFragments ==
  {"The cat sat on the mat.",
   "This dog ran to the park. The end of it is near.",
   "We like them all a lot.",
   "the bird flew off home. Nobody knows it all.",
   "Theory is not all of it."}

VarietyTexts == Concats(VarietyFragments, MaxFrags)

InitVariety ==
  /\ op = "start"
  /\ text \in VarietyTexts
  /\ other = ""
  /\ res = NoResult
  /\ corpus = <<>>
  /\ corpus_sources = <<>>

\* steps 1 to 4 of _generate_full_humanized_text: `other` keeps
\* current_sentences, the sentences step 4 reads, and res the outcome of the
\* loop (humanized_sentences and changes)
AddSentenceVariety ==
  /\ op = "start"
  /\ NonBlank(text)
  /\ op' = "variety"
  /\ \E st \in ReplaceFillers(ReplaceTransitions(
                 {ReplaceFormalPhrases([text |-> text, changes |-> <<>>])})) :
       /\ other' = H_get_sentences(st.text)
       /\ res' \in AddVariety(st)
  /\ UNCHANGED <<text, corpus, corpus_sources>>

NextVariety == AddSentenceVariety

SpecVariety == InitVariety /\ [][NextVariety]_vars

\* sentence k of step 4 got a starter
GotStarter(k) == res.sentences[k] # other[k]

\* C25: step 4 prepends a starter only to a sentence that begins with 'the '
\* or 'this ' and follows a sentence that begins so as well; the first
\* sentence never gets one and no two adjacent sentences both get one.
C25_StarterOnlyOnRepeatedStart ==
  op = "variety" =>
    /\ Len(res.sentences) = Len(other)
    /\ \A k \in 1..Len(other) :
         GotStarter(k) =>
           /\ \E c \in 1..Len(human_starters) :
                res.sentences[k] = human_starters[c] \o " " \o LowerChar(Char(other[k], 1))
                                     \o SubSeq(other[k], 2, Len(other[k]))
           /\ StartsWith(Lower(other[k]), "the ") \/ StartsWith(Lower(other[k]), "this ")
           /\ k >= 2
           /\ StartsWith(Lower(other[k - 1]), "the ") \/ StartsWith(Lower(other[k - 1]), "this ")
           /\ ~GotStarter(k - 1)
           /\ k < Len(other) => ~GotStarter(k + 1)

\* three sentences in a row begin with 'The'/'This'; the second got a starter
\* and the third, again a candidate, did not
C25_Witness ==
  /\ op = "variety"
  /\ Len(other) >= 3
  /\ \A k \in 1..3 : StartsWith(Lower(other[k]), "the ") \/ StartsWith(Lower(other[k]), "this ")
  /\ GotStarter(2)
  /\ ~GotStarter(3)
  /\ CountType(res.changes, "variety_addition") = 1

(***************************************************************************)
(* The rewrite pipeline run on a text and then on its own output.          *)
(***************************************************************************)

RerunFragments ==
  {"Cats sleep a lot. Dogs run in parks. Birds fly over hills.",
   "We like them all a lot. Nobody knows it all. Fish swim in seas.",
   "Owls hunt at night. Bees make honey. Mice eat old cheese.",
   "Does it rain today? Snow falls in winter. Rain falls in spring."}

\* texts of six sentences
RerunTexts == {a \o " " \o b : a, b \in RerunFragments}

InitRerun ==
  /\ op = "start"
  /\ text \in RerunTexts
  /\ other = ""
  /\ res = NoResult
  /\ corpus = <<>>
  /\ corpus_sources = <<>>

\* _generate_full_humanized_text on the humanized_text of the run before;
\* `other` keeps the result of that run
GenerateAgain ==
  /\ op = "humanize"
  /\ NonBlank(res.humanized_text)
  /\ op' = "humanize_again"
  /\ other' = res
  /\ res' \in H_generate_full_humanized_text(res.humanized_text)
  /\ UNCHANGED <<text, corpus, corpus_sources>>

NextRerun == GenerateFullHumanizedText \/ GenerateAgain

SpecRerun == InitRerun /\ [][NextRerun]_vars

\* C26: when the first run inserted a rhetorical question, its text holds a
\* question mark and the run on that text inserts no question.
C26_NoSecondQuestion ==
  (op = "humanize_again" /\ CountType(other.changes, "question_addition") > 0) =>
    /\ Contains(other.humanized_text, "?")
    /\ CountType(res.changes, "question_addition") = 0

(***************************************************************************)
(* add_to_corpus and analyze called from two threads on one detector,      *)
(* without a lock: each statement that reads or writes self.corpus or      *)
(* self.corpus_sources is a step.  `other` holds the position and the      *)
(* locals of the two calls and the list of the add_to_corpus calls made.   *)
(***************************************************************************)

\* the result of analyze(t) when `if self.corpus` of line 71 read has_corpus,
\* line 92 read self.corpus = docs, line 99 read self.corpus_sources = sources
\* and `if self.corpus` of line 83 read has_corpus_at_end
P_analyze_reading(t, has_corpus, docs, sources, has_corpus_at_end) ==
  LET processed_text == P_preprocess_text(t)
      sentences      == P_get_sentences(t)
      checked        == P_check_against_corpus(processed_text, docs, sources)
      common_phrases == P_detect_common_phrases(t)
      internal_score == P_calculate_internal_similarity(sentences)
      base == [score |-> P_score(has_corpus_at_end,
                                 IF has_corpus THEN checked.corpus_score ELSE 0,
                                 Len(common_phrases), internal_score),
               flagged_sentences |-> <<>>,
               sentence_scores |-> <<>>,
               common_phrases |-> common_phrases,
               details |-> <<>>,
               internal_similarity |-> internal_score]
  IN  IF has_corpus
      THEN [f \in DOMAIN base \cup {"corpus_score", "flagged_matches"} |->
              IF f = "corpus_score" THEN checked.corpus_score
              ELSE IF f = "flagged_matches" THEN checked.flagged_matches
              ELSE base[f]]
      ELSE base

RaceDocs == {"Cats chase mice daily.", "Dogs chase cats."}

RaceTexts == {"Cats chase mice daily.", "Dogs chase cats and mice and birds and fish.", "Fish swim."}

InitRace ==
  /\ op = "start"
  /\ text = ""
  /\ other = [pc_add |-> "idle", pending |-> "", pc_analyze |-> "idle",
              has_corpus |-> FALSE, docs |-> <<>>, sources |-> <<>>,
              overlapped |-> FALSE, added |-> <<>>]
  /\ res = NoResult
  /\ corpus = <<>>
  /\ corpus_sources = <<>>

\* add_to_corpus(d, s), line 25: self.corpus.append(text)
RaceAppendText ==
  /\ other.pc_add = "idle"
  /\ Len(corpus) < MaxCorpus
  /\ \E d \in RaceDocs, s \in PlagSources :
       /\ corpus' = Append(corpus, d)
       /\ other' = [other EXCEPT !.pc_add = "appended", !.pending = s,
                                 !.added = Append(@, [text |-> d, source |-> s]),
                                 !.overlapped = @ \/ other.pc_analyze # "idle"]
  /\ op' = "append_text"
  /\ UNCHANGED <<text, res, corpus_sources>>

\* add_to_corpus, line 26: self.corpus_sources.append(source)
RaceAppendSource ==
  /\ other.pc_add = "appended"
  /\ corpus_sources' = Append(corpus_sources, other.pending)
  /\ other' = [other EXCEPT !.pc_add = "idle",
                            !.overlapped = @ \/ other.pc_analyze # "idle"]
  /\ op' = "append_source"
  /\ UNCHANGED <<text, res, corpus>>

\* analyze(t) for a text that is not blank, up to `if self.corpus:` of line 71
RaceAnalyzeBegin ==
  /\ other.pc_analyze = "idle"
  /\ \E t \in RaceTexts : text' = t
  /\ other' = [other EXCEPT !.pc_analyze = "line71", !.has_corpus = corpus # <<>>,
                            !.docs = <<>>, !.sources = <<>>,
                            !.overlapped = other.pc_add # "idle"]
  /\ res' = NoResult
  /\ op' = "analyze_begin"
  /\ UNCHANGED <<corpus, corpus_sources>>

\* _check_against_corpus, line 92: all_texts = self.corpus + [text]
RaceReadCorpus ==
  /\ other.pc_analyze = "line71"
  /\ other.has_corpus
  /\ other' = [other EXCEPT !.pc_analyze = "line92", !.docs = corpus]
  /\ op' = "read_corpus"
  /\ UNCHANGED <<text, res, corpus, corpus_sources>>

\* _check_against_corpus, line 99: zip(similarities, self.corpus_sources)
RaceReadLabels ==
  /\ other.pc_analyze = "line92"
  /\ other' = [other EXCEPT !.pc_analyze = "line99", !.sources = corpus_sources]
  /\ op' = "read_sources"
  /\ UNCHANGED <<text, res, corpus, corpus_sources>>

\* analyze, lines 74-88: `if self.corpus:` of line 83 and the return
RaceAnalyzeEnd ==
  /\ \/ other.pc_analyze = "line99"
     \/ other.pc_analyze = "line71" /\ ~other.has_corpus
  /\ res' = P_analyze_reading(text, other.has_corpus, other.docs, other.sources,
                              corpus # <<>>)
  /\ other' = [other EXCEPT !.pc_analyze = "idle"]
  /\ op' = "analyze"
  /\ UNCHANGED <<text, corpus, corpus_sources>>

NextRace ==
  \/ RaceAppendText
  \/ RaceAppendSource
  \/ RaceAnalyzeBegin
  \/ RaceReadCorpus
  \/ RaceReadLabels
  \/ RaceAnalyzeEnd

SpecRace == InitRace /\ [][NextRace]_vars

\* the result of the analyze call that has returned was computed with a corpus
CheckedAgainstCorpus == op = "analyze" /\ other.has_corpus

\* every flagged match has the label of the add_to_corpus call of its text
FlaggedLabelsRight ==
  \A m \in 1..Len(res.flagged_matches) :
    LET i == res.flagged_matches[m].match_index + 1
    IN  /\ i <= Len(other.added)
        /\ res.flagged_matches[m].source = other.added[i].source
        /\ other.docs[i] = other.added[i].text

\* C28 as stated: in every result computed with a corpus, corpus_score > 30
\* exactly when there is a flagged match, and the labels are right, whatever
\* the interleaving with add_to_corpus is.
C28_FlaggedIffScoreInterleaved ==
  CheckedAgainstCorpus =>
    /\ (res.corpus_score > 30000) <=> (res.flagged_matches # <<>>)
    /\ FlaggedLabelsRight

\* C28, amended: the labels are right and a flagged match implies
\* corpus_score > 30 in every interleaving; corpus_score > 30 implies a
\* flagged match when no statement of add_to_corpus ran between the begin and
\* the end of the analyze call and none was pending at its begin.
C28_FlaggedIffScoreSerialized ==
  CheckedAgainstCorpus =>
    /\ FlaggedLabelsRight
    /\ res.flagged_matches # <<>> => res.corpus_score > 30000
    /\ (~other.overlapped /\ res.corpus_score > 30000) => res.flagged_matches # <<>>

\* an analyze call that did not overlap an add_to_corpus call, on a corpus of
\* two documents of which the second is flagged and the first is not
C28_Witness ==
  /\ CheckedAgainstCorpus
  /\ ~other.overlapped
  /\ Len(other.docs) = 2
  /\ res.corpus_score > 30000
  /\ Len(res.flagged_matches) = 1
  /\ res.flagged_matches[1].match_index = 1

(***************************************************************************)
(* Humanizer.generate_writing_exercises: the exercises selected.           *)
(***************************************************************************)

passive_auxiliaries == <<"is", "are", "was", "were", "been", "being">>

\* re.match(r'\s+\w+ed\b', s[i:]): white space from position i on, then a run
\* of word characters that ends with 'ed' after at least one other character
PassiveTailAt(s, i) ==
  \E q \in (i + 1)..Len(s), e \in (i + 3)..Len(s) :
    /\ \A k \in i..(q - 1) : IsSpace(Char(s, k))
    /\ q + 2 <= e
    /\ \A k \in q..e : IsWordChar(Char(s, k))
    /\ SubSeq(s, e - 1, e) = "ed"
    /\ e = Len(s) \/ ~IsWordChar(Char(s, e + 1))

\* re.search(r'(is|are|was|were|been|being)\s+\w+ed\b', sentence.lower()); a
\* match of the second pattern of passive_patterns holds a match of this one
HasPassive(sentence) ==
  LET s == Lower(sentence)
  IN  \E a \in 1..Len(passive_auxiliaries), i \in 1..Len(s) :
        /\ StartsWithAt(s, passive_auxiliaries[a], i)
        /\ PassiveTailAt(s, i + Len(passive_auxiliaries[a]))

\* bool(_find_passive_sentence(sentences)): sentences are not empty strings
H_find_passive_sentence(sentences) ==
  \E k \in 1..Len(sentences) : HasPassive(sentences[k])

\* the ids of the exercises generate_writing_exercises(t, ai_analysis)
\* returns, in the order of the list
H_generate_writing_exercises(t) ==
  LET sentences == H_get_sentences(t)
      filler_sentence == H_find_sentence_with_filler(sentences)
  IN  (IF sentences # <<>> THEN <<"personal_voice">> ELSE <<>>)
      \o (IF Len(sentences) >= 3 THEN <<"sentence_variety">> ELSE <<>>)
      \o (IF filler_sentence # "" THEN <<"remove_filler">> ELSE <<>>)
      \o (IF H_find_passive_sentence(sentences) THEN <<"active_voice">> ELSE <<>>)
      \o (IF ~Contains(t, "?") /\ Len(sentences) > 3 THEN <<"add_question">> ELSE <<>>)
      \o (IF Len(sentences) >= 2 THEN <<"add_contrast">> ELSE <<>>)

ExerciseFragments ==
  {"The cat sat on the mat.",
   "It is important to note that cats sleep.",
   "The mat was cleaned by the cat.",
   "Why does this matter?",
   "Dogs run in parks. Birds fly over hills.",
   "In order to win we play. Fish swim in seas. Owls hunt at night.",
   "Hi there.",
   "This bed is fine.",
   "Mice have been chased a lot.",
   "The cat is really tired today."}

ExerciseTexts == Concats(ExerciseFragments, MaxFrags)

InitExercise ==
  /\ op = "start"
  /\ text \in ExerciseTexts
  /\ other = ""
  /\ res = NoResult
  /\ corpus = <<>>
  /\ corpus_sources = <<>>

GenerateWritingExercises ==
  /\ op = "start"
  /\ op' = "exercises"
  /\ res' = H_generate_writing_exercises(text)
  /\ UNCHANGED <<text, other, corpus, corpus_sources>>

NextExercise == GenerateWritingExercises

SpecExercise == InitExercise /\ [][NextExercise]_vars

exercise_ids ==
  <<"personal_voice", "sentence_variety", "remove_filler", "active_voice",
    "add_question", "add_contrast">>

\* C29: the ids returned are a subsequence of exercise_ids without duplicates,
\* and 'remove_filler' is among them only when a retained sentence contains
\* one of the filler patterns.
C29_ExerciseSelection ==
  op = "exercises" =>
    /\ \A k \in 1..Len(res) : \E p \in 1..Len(exercise_ids) : res[k] = exercise_ids[p]
    /\ \A j, k \in 1..Len(res) :
         j < k => \E p, q \in 1..Len(exercise_ids) :
                    p < q /\ res[j] = exercise_ids[p] /\ res[k] = exercise_ids[q]
    /\ (\E k \in 1..Len(res) : res[k] = "remove_filler") =>
         \E s \in 1..Len(H_get_sentences(text)) : HasFillerPattern(H_get_sentences(text)[s])

(***************************************************************************)
(* Concurrent requests of one user to the views analyze_text and           *)
(* quick_analyze.  Every statement that reads or writes the database is a  *)
(* step.  `res` is the database: the user's Document rows (the request     *)
(* that created each), the AnalysisResult rows (their document) and the    *)
(* user's LearningProgress rows (total_documents of each).  `other` holds, *)
(* for each request, its position, the LearningProgress row it loaded and  *)
(* the count it read.                                                      *)
(***************************************************************************)

MaxRequests == 2

Requests == 1..MaxRequests

InitViews ==
  /\ op = "start"
  /\ text = ""
  /\ other = [r \in Requests |-> [pc |-> "new", progress |-> 0, total_documents |-> 0]]
  /\ res = [documents |-> <<>>, analyses |-> <<>>, progress |-> <<>>]
  /\ corpus = <<>>
  /\ corpus_sources = <<>>

\* request r moves to position pc
V_at(r, pc) == [other EXCEPT ![r].pc = pc]

\* analyze_text, lines 54-56: a text of white space only is rejected
V_reject_blank(r) ==
  /\ other[r].pc = "new"
  /\ other' = V_at(r, "done")
  /\ op' = "rejected"
  /\ UNCHANGED <<text, res, corpus, corpus_sources>>

\* quick_analyze: parses the body, runs the two detectors, returns JSON
V_quick_analyze(r) ==
  /\ other[r].pc = "new"
  /\ other' = V_at(r, "done")
  /\ op' = "quick_analyze"
  /\ UNCHANGED <<text, res, corpus, corpus_sources>>

\* analyze_text, lines 59-63: Document.objects.create
V_create_document(r) ==
  /\ other[r].pc = "new"
  /\ res' = [res EXCEPT !.documents = Append(@, r)]
  /\ other' = V_at(r, "document")
  /\ op' = "create_document"
  /\ UNCHANGED <<text, corpus, corpus_sources>>

\* analyze_text, lines 65-94: the analyses, AnalysisResult.objects.create and
\* the RewriteSuggestion rows
V_create_analysis(r) ==
  /\ other[r].pc = "document"
  /\ res' = [res EXCEPT !.analyses = Append(@, r)]
  /\ other' = V_at(r, "analysis")
  /\ op' = "create_analysis"
  /\ UNCHANGED <<text, corpus, corpus_sources>>

\* _update_progress, line 191: the query of get_or_create(user=user); user
\* is a ForeignKey, not unique: no row leads to create, one row is loaded,
\* more rows raise MultipleObjectsReturned and the request fails
V_get_progress(r) ==
  /\ other[r].pc = "analysis"
  /\ other' = IF Len(res.progress) = 0 THEN V_at(r, "create")
              ELSE IF Len(res.progress) = 1
                   THEN [other EXCEPT ![r].pc = "loaded", ![r].progress = 1]
                   ELSE V_at(r, "failed")
  /\ op' = "get_progress"
  /\ UNCHANGED <<text, res, corpus, corpus_sources>>

\* _update_progress, line 191: the insert of get_or_create
V_create_progress(r) ==
  /\ other[r].pc = "create"
  /\ res' = [res EXCEPT !.progress = Append(@, V_new_progress.total_documents)]
  /\ other' = [other EXCEPT ![r].pc = "loaded", ![r].progress = Len(res.progress) + 1]
  /\ op' = "create_progress"
  /\ UNCHANGED <<text, corpus, corpus_sources>>

\* _update_progress, line 196: progress.total_documents = documents.count()
V_count_documents(r) ==
  /\ other[r].pc = "loaded"
  /\ other' = [other EXCEPT ![r].pc = "counted",
                            ![r].total_documents = Len(res.documents)]
  /\ op' = "count_documents"
  /\ UNCHANGED <<text, res, corpus, corpus_sources>>

\* _update_progress, line 211: progress.save()
V_save_progress(r) ==
  /\ other[r].pc = "counted"
  /\ res' = [res EXCEPT !.progress[other[r].progress] = other[r].total_documents]
  /\ other' = V_at(r, "done")
  /\ op' = "save_progress"
  /\ UNCHANGED <<text, corpus, corpus_sources>>

NextViews ==
  \E r \in Requests :
    \/ V_reject_blank(r)
    \/ V_quick_analyze(r)
    \/ V_create_document(r)
    \/ V_create_analysis(r)
    \/ V_get_progress(r)
    \/ V_create_progress(r)
    \/ V_count_documents(r)
    \/ V_save_progress(r)

SpecViews == InitViews /\ [][NextViews]_vars

\* no request is in flight
AllCompleted == \A r \in Requests : other[r].pc \in {"new", "done", "failed"}

\* C30: when no request is in flight, total_documents of the user's
\* LearningProgress is the number of the user's Documents and every Document
\* has exactly one AnalysisResult.
C30_ProgressCountsDocuments ==
  AllCompleted =>
    /\ \A p \in 1..Len(res.progress) : res.progress[p] = Len(res.documents)
    /\ res.documents # <<>> => res.progress # <<>>
    /\ \A d \in 1..Len(res.documents) :
         Cardinality({a \in 1..Len(res.analyses) : res.analyses[a] = res.documents[d]}) = 1

====
